---- MODULE Spec2Model ----
(***************************************************************************)
(* Model of the memory subsystem of lambdaOS (x86_64):                     *)
(*   - AreaFrameAllocator  (arch/x86_64/memory/area_frame_allocator.rs)    *)
(*   - Table / recursive table access (arch/x86_64/memory/paging/table.rs) *)
(*   - ActivePageTable, InactivePageTable, paging_init (paging/mod.rs)     *)
(* Frames and pages are numbers (address / PAGE_SIZE).                     *)
(***************************************************************************)
EXTENDS Integers, Sequences, FiniteSets, TLC

(***************************************************************************)
(* Bounds of the model.                                                    *)
(***************************************************************************)
\* Physical frames of the allocator's memory map are 0..MaxFrame.
MaxFrame == 4
\* allocate_frame is called with count in 0..MaxCount.
MaxCount == 3
\* The kernel range and the boot-info range span at most MaxReserved frames.
MaxReserved == 2
\* Depth of the call stack available to the recursion of allocate_frame.
StackLimit == 6

(***************************************************************************)
(* Program constants.                                                      *)
(***************************************************************************)
PAGE_SIZE == 4096

\* Option::None of an index or a frame number.
None == -1

\* No run of frames: what a call that returned None leaves as its result.
NoRun == [some |-> FALSE, start |-> 0, count |-> 0, via |-> {}]

(***************************************************************************)
(* Frame::containing_address: the frame that holds a physical address.     *)
(***************************************************************************)
ContainingAddress(address) == address \div PAGE_SIZE

StartAddress(number) == number * PAGE_SIZE

(***************************************************************************)
(* AreaFrameAllocator.  The allocator is a record with the fields of the   *)
(* struct; areas is the memory map (a sequence of [base_addr, length]),    *)
(* current_area an index into it or None.                                  *)
(***************************************************************************)
AreaStartFrame(area) == ContainingAddress(area.base_addr)

AreaLastFrame(area) == ContainingAddress(area.base_addr + area.length - 1)

\* The mutant of choose_next_area that forgets to move the candidate up to
\* the start of the area it chose.
ChooseNextAreaNoBump(a) ==
    LET cand == {i \in DOMAIN a.areas : AreaLastFrame(a.areas[i]) >= a.next_free_frame}
        best == {i \in cand : \A j \in cand : a.areas[i].base_addr <= a.areas[j].base_addr}
        cur  == IF cand = {} THEN None
                ELSE CHOOSE i \in best : \A j \in best : i <= j
    IN  [a EXCEPT !.current_area = cur]

\* The mutant of choose_next_area that moves the candidate to the start of
\* the area it chose whether or not the candidate is below it.
ChooseNextAreaAlwaysStart(a) ==
    LET cand == {i \in DOMAIN a.areas : AreaLastFrame(a.areas[i]) >= a.next_free_frame}
        best == {i \in cand : \A j \in cand : a.areas[i].base_addr <= a.areas[j].base_addr}
        cur  == IF cand = {} THEN None
                ELSE CHOOSE i \in best : \A j \in best : i <= j
        b    == [a EXCEPT !.current_area = cur]
    IN  IF cur # None
        THEN [b EXCEPT !.next_free_frame = AreaStartFrame(a.areas[cur])]
        ELSE b

\* choose_next_area: the area of lowest base address (the first of them in
\* the map's order) whose last frame is at or after the candidate; the
\* candidate moves up to that area's first frame.
ChooseNextArea(a) ==
    LET cand == {i \in DOMAIN a.areas : AreaLastFrame(a.areas[i]) >= a.next_free_frame}
        best == {i \in cand : \A j \in cand : a.areas[i].base_addr <= a.areas[j].base_addr}
        cur  == IF cand = {} THEN None
                ELSE CHOOSE i \in best : \A j \in best : i <= j
        b    == [a EXCEPT !.current_area = cur]
    IN  IF cur # None /\ b.next_free_frame < AreaStartFrame(a.areas[cur])
        THEN [b EXCEPT !.next_free_frame = AreaStartFrame(a.areas[cur])]
        ELSE b

\* AreaFrameAllocator::new
NewAllocator(kernel_start, kernel_end, multiboot_start, multiboot_end, memory_areas) ==
    ChooseNextArea([next_free_frame |-> ContainingAddress(0),
                    current_area    |-> None,
                    areas           |-> memory_areas,
                    kernel_start    |-> ContainingAddress(kernel_start),
                    kernel_end      |-> ContainingAddress(kernel_end),
                    multiboot_start |-> ContainingAddress(multiboot_start),
                    multiboot_end   |-> ContainingAddress(multiboot_end)])

\* The mutant of the kernel test that takes kernel_start for a free frame.
KernelOverlapStrict(a, start_frame, end_frame) ==
    \/ (start_frame > a.kernel_start /\ start_frame <= a.kernel_end)
    \/ (end_frame > a.kernel_start /\ start_frame <= a.kernel_end)

\* The kernel test of allocate_frame (lines 84-85).
KernelOverlap(a, start_frame, end_frame) ==
    \/ (start_frame >= a.kernel_start /\ start_frame <= a.kernel_end)
    \/ (end_frame >= a.kernel_start /\ start_frame <= a.kernel_end)

\* The boot-info test of allocate_frame (lines 91-92).
MultibootOverlap(a, start_frame, end_frame) ==
    \/ (start_frame >= a.multiboot_start /\ start_frame <= a.multiboot_end)
    \/ (end_frame >= a.multiboot_start /\ end_frame <= a.multiboot_end)

\* The mutant of the body of allocate_frame whose kernel test looks at the
\* first frame of the run only.
AllocStepStartOnly(a, count) ==
    IF count = 0 THEN [out |-> "none", a |-> a, frame |-> 0]
    ELSE IF a.current_area # None THEN
        LET area        == a.areas[a.current_area]
            start_frame == a.next_free_frame
            end_frame   == a.next_free_frame + (count - 1)
        IN  IF end_frame > AreaLastFrame(area)
            THEN [out |-> "area", a |-> ChooseNextArea(a), frame |-> 0]
            ELSE IF start_frame >= a.kernel_start /\ start_frame <= a.kernel_end
            THEN [out |-> "kernel",
                  a |-> [a EXCEPT !.next_free_frame = a.kernel_end + 1], frame |-> 0]
            ELSE IF MultibootOverlap(a, start_frame, end_frame)
            THEN [out |-> "multiboot",
                  a |-> [a EXCEPT !.next_free_frame = a.multiboot_end + 1], frame |-> 0]
            ELSE [out |-> "some",
                  a |-> [a EXCEPT !.next_free_frame = @ + 1], frame |-> start_frame]
    ELSE [out |-> "none", a |-> a, frame |-> 0]

\* One activation of allocate_frame(count), up to its return or its
\* recursive call: out is "some" (Some(frame) is returned), "none" (None is
\* returned), or the branch taken before the call recurses ("area",
\* "kernel", "multiboot"); a is the allocator afterwards.
AllocStep(a, count) ==
    IF count = 0 THEN [out |-> "none", a |-> a, frame |-> 0]
    ELSE IF a.current_area # None THEN
        LET area        == a.areas[a.current_area]
            start_frame == a.next_free_frame
            end_frame   == a.next_free_frame + (count - 1)
        IN  IF end_frame > AreaLastFrame(area)
            THEN [out |-> "area", a |-> ChooseNextArea(a), frame |-> 0]
            ELSE IF KernelOverlap(a, start_frame, end_frame)
            THEN [out |-> "kernel",
                  a |-> [a EXCEPT !.next_free_frame = a.kernel_end + 1], frame |-> 0]
            ELSE IF MultibootOverlap(a, start_frame, end_frame)
            THEN [out |-> "multiboot",
                  a |-> [a EXCEPT !.next_free_frame = a.multiboot_end + 1], frame |-> 0]
            ELSE [out |-> "some",
                  a |-> [a EXCEPT !.next_free_frame = @ + 1], frame |-> start_frame]
    ELSE [out |-> "none", a |-> a, frame |-> 0]

\* allocate_frame(count) as a whole call: every activation of the recursion,
\* with fuel activations of stack left.  frame is the frame returned or
\* None; diverged says that the recursion used up the stack.
RECURSIVE AllocateFrame(_, _, _)
AllocateFrame(a, count, fuel) ==
    LET s == AllocStep(a, count)
    IN  IF s.out = "some" THEN [a |-> s.a, frame |-> s.frame, diverged |-> FALSE]
        ELSE IF s.out = "none" THEN [a |-> s.a, frame |-> None, diverged |-> FALSE]
        ELSE IF fuel = 0 THEN [a |-> s.a, frame |-> None, diverged |-> TRUE]
        ELSE AllocateFrame(s.a, count, fuel - 1)

(***************************************************************************)
(* Page tables.                                                            *)
(*                                                                         *)
(* A virtual page is the tuple <<p4, p3, p2, p1>> of its four 9-bit table  *)
(* indices (bits 47..12 of its address; bits 63..48 repeat bit 47): the    *)
(* addresses of the recursive mapping and the temporary page do not fit    *)
(* TLC's 32-bit integers.  A table is a function from the indices of its   *)
(* used entries to entries [frame, flags]; an index outside its domain is  *)
(* an unused (zero) entry.  mem holds the table that lives in each frame   *)
(* that has been written as a table.                                       *)
(***************************************************************************)
ENTRY_COUNT == 512

PRESENT == "PRESENT"
WRITABLE == "WRITABLE"
HUGE_PAGE == "HUGE_PAGE"
NO_EXECUTE == "NO_EXECUTE"

\* The address of the level-4 table, 0xffffffff_fffff000.
P4 == <<511, 511, 511, 511>>

\* No table: Option::None of a table reference.
NoTable == <<>>

\* Page::p4_index .. Page::p1_index of a page number.
P4Index(number) == (number \div 134217728) % ENTRY_COUNT
P3Index(number) == (number \div 262144) % ENTRY_COUNT
P2Index(number) == (number \div ENTRY_COUNT) % ENTRY_COUNT
\* The mutant of p1_index that shifts as p2_index does.
P1IndexShifted(number) == (number \div ENTRY_COUNT) % ENTRY_COUNT

P1Index(number) == number % ENTRY_COUNT

\* Page::containing_address of an address below 2^31 (the canonical lower
\* half): the page number address / PAGE_SIZE, as its indices.
PageContainingAddress(address) ==
    LET number == address \div PAGE_SIZE
    IN  <<P4Index(number), P3Index(number), P2Index(number), P1Index(number)>>

\* Page::start_address of a page of the first 2^31 bytes.
PageStartAddress(page) ==
    (((page[1] * ENTRY_COUNT + page[2]) * ENTRY_COUNT + page[3]) * ENTRY_COUNT
        + page[4]) * PAGE_SIZE

UnusedEntry == [frame |-> 0, flags |-> {}]

\* The one element of a singleton.  Only({F(x) : x \in {e}}) is F(e) with e
\* evaluated once.
Only(S) == CHOOSE x \in S : TRUE

EmptyTable == <<>>

\* Entry i of a table.
EntryOf(table, i) == IF i \in DOMAIN table THEN table[i] ELSE UnusedEntry

\* Entry::set / set_unused on entry i of a table.
SetEntryOf(table, i, e) ==
    IF e = UnusedEntry
    THEN [j \in DOMAIN table \ {i} |-> table[j]]
    ELSE [j \in DOMAIN table \cup {i} |-> IF j = i THEN e ELSE table[j]]

\* Entry::pointed_frame
PointedFrame(e) == IF PRESENT \in e.flags THEN e.frame ELSE None

\* The processor's translation of a page with base register c and memory
\* m: the frame the page is mapped to, or None (a page fault).  WalkTable
\* looks the page's level-k index up in the table of a frame, WalkEntry
\* follows the entry found.
RECURSIVE WalkTable(_, _, _, _)
WalkEntry(m, e, page, k) ==
    IF PRESENT \notin e.flags THEN None
    ELSE IF k = 4 THEN e.frame
    ELSE WalkTable(m, e.frame, page, k + 1)

WalkTable(m, frame, page, k) ==
    IF frame \notin DOMAIN m THEN None
    ELSE Only({WalkEntry(m, e, page, k) : e \in {EntryOf(m[frame], page[k])}})

Walk(c, m, page) == WalkTable(m, c, page, 1)

\* Index / IndexMut of the table at virtual address vp.
ReadEntry(c, m, vp, i) == EntryOf(m[Walk(c, m, vp)], i)

WriteFrame(m, f, i, e) == [m EXCEPT ![f] = SetEntryOf(m[f], i, e)]

WriteEntry(c, m, vp, i, e) == WriteFrame(m, Walk(c, m, vp), i, e)

\* Table::zero of the table at virtual address vp (the frame behind it may
\* not have held a table before).
ZeroFrame(m, f) == [g \in DOMAIN m \cup {f} |-> IF g = f THEN EmptyTable ELSE m[g]]

ZeroTable(c, m, vp) == ZeroFrame(m, Walk(c, m, vp))

\* The child's address of next_table_address, (table_address << 9) |
\* (index << 12): the shift moves every index of the table's address up
\* one place and the given index takes the last place.
ChildAddress(vp, index) == <<vp[2], vp[3], vp[4], index>>

\* The mutant of the test of next_table_address that looks at PRESENT
\* alone.
IsTableEntryPresentOnly(entry_flags) == PRESENT \in entry_flags

IsTableEntry(entry_flags) == PRESENT \in entry_flags /\ HUGE_PAGE \notin entry_flags

\* Table::next_table_address
NextTableAddress(c, m, vp, index) ==
    IF IsTableEntry(ReadEntry(c, m, vp, index).flags)
    THEN ChildAddress(vp, index)
    ELSE NoTable

\* Table::next_table and Table::next_table_mut
NextTable(c, m, vp, index) == NextTableAddress(c, m, vp, index)

\* An allocator handed to the mapping code is the AreaFrameAllocator
\* [kind |-> "area", a |-> ...] or the temporary page's pool
\* [kind |-> "tiny", frames |-> a sequence of frames or None].
AreaAlloc(a) == [kind |-> "area", a |-> a, frames |-> <<>>]

TinyAlloc(frames) == [kind |-> "tiny", a |-> None, frames |-> frames]

AreaAllocated(r) == [al |-> AreaAlloc(r.a), frame |-> r.frame]

\* TinyAllocator::allocate_frame: the first frame left in the pool.
TinyTake(al, some) ==
    IF some = {} THEN [al |-> al, frame |-> None]
    ELSE LET i == CHOOSE i \in some : \A j \in some : i <= j
         IN  [al |-> TinyAlloc([al.frames EXCEPT ![i] = None]), frame |-> al.frames[i]]

\* FrameAllocator::allocate_frame(1) of either allocator.
Allocate1(al) ==
    IF al.kind = "area"
    THEN Only({AreaAllocated(r) : r \in {AllocateFrame(al.a, 1, StackLimit)}})
    ELSE TinyTake(al, {i \in DOMAIN al.frames : al.frames[i] # None})

\* The results of next_table_create: the child (and memory and allocator
\* as they are left), or a panic.
TableResult(c, m, al, vp, index) ==
    [ok |-> TRUE, m |-> m, al |-> al, child |-> NextTable(c, m, vp, index), why |-> ""]

TablePanic(m, al, why_) ==
    [ok |-> FALSE, m |-> m, al |-> al, child |-> NoTable, why |-> why_]

\* Lines 74-76 of next_table_create, r being what allocate_frame(1) gave:
\* the entry is set to the frame, the child behind it is zeroed.
ZeroChild(c, m1, al, vp, index) ==
    Only({TableResult(c, m2, al, vp, index) :
             m2 \in {ZeroTable(c, m1, NextTable(c, m1, vp, index))}})

\* The mutant of line 73 that sets PRESENT alone.
InstallChildReadOnly(c, m, vp, index, r) ==
    IF r.frame = None
    THEN TablePanic(m, r.al, "no frames available")
    ELSE Only({ZeroChild(c, m1, r.al, vp, index) :
                  m1 \in {WriteEntry(c, m, vp, index,
                              [frame |-> r.frame, flags |-> {PRESENT}])}})

InstallChild(c, m, vp, index, r) ==
    IF r.frame = None
    THEN TablePanic(m, r.al, "no frames available")
    ELSE Only({ZeroChild(c, m1, r.al, vp, index) :
                  m1 \in {WriteEntry(c, m, vp, index,
                              [frame |-> r.frame, flags |-> {PRESENT, WRITABLE}])}})

\* The mutant of next_table_create that allocates a new child whether or
\* not one is present.
NextTableCreateAlways(c, m, al, vp, index) ==
    Only({InstallChild(c, m, vp, index, r) : r \in {Allocate1(al)}})

\* The mutant of next_table_create without the assertion of lines 70-73.
NextTableCreateOverHuge(c, m, al, vp, index) ==
    IF NextTable(c, m, vp, index) # NoTable
    THEN TableResult(c, m, al, vp, index)
    ELSE Only({InstallChild(c, m, vp, index, r) : r \in {Allocate1(al)}})

\* Table::next_table_create on the table at vp: the child at index, made
\* from a fresh frame when it is absent.  ok = FALSE is a panic.
NextTableCreate(c, m, al, vp, index) ==
    IF NextTable(c, m, vp, index) # NoTable
    THEN TableResult(c, m, al, vp, index)
    ELSE IF HUGE_PAGE \in ReadEntry(c, m, vp, index).flags
    THEN TablePanic(m, al, "mapping code does not support huge pages")
    ELSE Only({InstallChild(c, m, vp, index, r) : r \in {Allocate1(al)}})

(***************************************************************************)
(* Mapper (paging/mapper.rs), after sections 4.2 and 4.3 of the design.    *)
(***************************************************************************)
\* Mapper::translate_page: the walk from the level-4 table down through
\* next_table to the level-1 entry's frame.  TranslateIn looks the page up
\* in the level-k table at vp.
RECURSIVE TranslateIn(_, _, _, _, _)
TranslateIn(c, m, vp, page, k) ==
    IF vp = NoTable THEN None
    ELSE IF k = 1 THEN PointedFrame(ReadEntry(c, m, vp, page[4]))
    ELSE Only({TranslateIn(c, m, child, page, k - 1) :
                  child \in {NextTable(c, m, vp, page[5 - k])}})

TranslatePage(c, m, page) == TranslateIn(c, m, P4, page, 4)

FrameAddress(frame, offset) ==
    IF frame = None THEN None ELSE frame * PAGE_SIZE + offset

\* Mapper::translate of a virtual address below 2^31.
Translate(c, m, address) ==
    FrameAddress(TranslatePage(c, m, PageContainingAddress(address)),
                 address % PAGE_SIZE)

\* Mapper::map_to: creates the level-3, 2 and 1 tables on demand and sets
\* the level-1 entry to the frame with flags | PRESENT.  MapIn goes on from
\* r, the level-k table that was found or made.
RECURSIVE MapIn(_, _, _, _, _, _)
MapIn(c, r, page, k, frame, flags) ==
    IF ~r.ok THEN [ok |-> FALSE, m |-> r.m, al |-> r.al, why |-> r.why]
    ELSE IF k = 1
    THEN [ok |-> TRUE, al |-> r.al, why |-> "",
          m |-> WriteEntry(c, r.m, r.child, page[4],
                    [frame |-> frame, flags |-> flags \cup {PRESENT}])]
    ELSE Only({MapIn(c, r1, page, k - 1, frame, flags) :
                  r1 \in {NextTableCreate(c, r.m, r.al, r.child, page[5 - k])}})

MapTo(c, m, al, page, frame, flags) ==
    MapIn(c, [ok |-> TRUE, m |-> m, al |-> al, child |-> P4, why |-> ""],
          page, 4, frame, flags)

\* Mapper::identity_map
IdentityMap(c, m, al, frame, flags) ==
    MapTo(c, m, al, PageContainingAddress(StartAddress(frame)), frame, flags)

\* The level-1 table of a page, through next_table_mut from the level-k
\* table at vp.
RECURSIVE Level1Table(_, _, _, _, _)
Level1Table(c, m, vp, page, k) ==
    IF k = 1 \/ vp = NoTable THEN vp
    ELSE Only({Level1Table(c, m, child, page, k - 1) :
                  child \in {NextTable(c, m, vp, page[5 - k])}})

\* Mapper::unmap: asserts that the page is mapped, clears its level-1
\* entry (and invalidates the page in the translation cache).
Unmap(c, m, page) ==
    IF TranslatePage(c, m, page) = None
    THEN [ok |-> FALSE, m |-> m, why |-> "unmap of a page that is not mapped"]
    ELSE [ok |-> TRUE, why |-> "",
          m |-> WriteEntry(c, m, Level1Table(c, m, P4, page, 4), page[4], UnusedEntry)]

(***************************************************************************)
(* State.                                                                  *)
(*   allocator  the AreaFrameAllocator                                     *)
(*   apc        "idle": no call in progress; "alloc": inside               *)
(*              allocate_frame; "overflow": the recursion used up the      *)
(*              stack                                                      *)
(*   count      the argument of the call in progress                       *)
(*   depth      recursive activations of the call in progress              *)
(*   via        the branches the call in progress has taken                *)
(*   result     what the last call returned: NoRun or the run returned     *)
(*   earlier    one earlier successful result (any of them), or NoRun      *)
(*   entered    the allocator as the last call found it                    *)
(*   exhausted  a call for one frame or more has returned None             *)
(***************************************************************************)
VARIABLES allocator, apc, count, depth, via, result, earlier, entered, exhausted

(***************************************************************************)
(*   cr3        the page-table base register: the physical address of the  *)
(*              active level-4 table                                       *)
(*   mem        physical memory: the table held by each table frame        *)
(*   pc         where the paging code is: "ready" between calls of the     *)
(*              Mapper, the steps of paging_init, "done", "panic"          *)
(*   why        the message of the panic                                   *)
(*   shadow     per test address, what the caller of the Mapper did last   *)
(*              with its page                                              *)
(*   lastop     the last call made to the Mapper                           *)
(***************************************************************************)
VARIABLES cr3, mem, pc, why, shadow, lastop

(***************************************************************************)
(*   boot       the boot information: the kernel's sections, whether the   *)
(*              section tag is there, the structure's own extent, and the  *)
(*              frame of the level-4 table the boot code installed         *)
(*   tiny       the frames of the temporary page's allocator               *)
(*   new_table  the InactivePageTable of paging_init (its p4_frame)        *)
(*   backup     the frame `with` read from the base register               *)
(*   old_table  the InactivePageTable that switch returned (its p4_frame)  *)
(*   work       what the closure of paging_init still has to do            *)
(*   before     translate_page of the probe pages when `with` was entered  *)
(***************************************************************************)
VARIABLES boot, tiny, new_table, backup, old_table, work, before

(***************************************************************************)
(*   handles    the level-4 frames of the InactivePageTable handles that   *)
(*              exist: made by InactivePageTable::new or returned by       *)
(*              switch, and not yet consumed by switch                     *)
(***************************************************************************)
VARIABLES handles

(***************************************************************************)
(*   vaddr      the virtual address handed to Page::containing_address     *)
(*   page       what Page::containing_address made of it                   *)
(*   trace      what paging_init has done to the tables, the translation   *)
(*              cache and the base register, in order                      *)
(***************************************************************************)
VARIABLES vaddr, page, trace

(***************************************************************************)
(*   ioapic     the I/O APICs of the machine and the call of               *)
(*              IoApic::io_apic_from_gsi in progress                       *)
(***************************************************************************)
VARIABLES ioapic

avars == <<apc, count, depth, via, result, earlier, entered, exhausted>>

mvars == <<shadow, lastop>>

ivars == <<boot, tiny, new_table, backup, old_table, work, before>>

svars == <<handles, vaddr, page, ioapic>>

tvars == <<trace>>

pgvars == <<cr3, mem, pc, why, shadow, lastop,
            boot, tiny, new_table, backup, old_table, work, before, handles,
            vaddr, page, trace, ioapic>>

vars == <<allocator, apc, count, depth, via, result, earlier, entered, exhausted,
          cr3, mem, pc, why, shadow, lastop,
          boot, tiny, new_table, backup, old_table, work, before, handles,
          vaddr, page, trace, ioapic>>

\* No call of Page::containing_address, and no paging_init.
PageIdle == vaddr = <<>> /\ page = <<>>

TraceIdle == trace = <<>>

\* No I/O APIC is looked at.
ApicIdle == ioapic = <<>>

\* control_regs::cr3() as a frame: the frame of the active level-4 table.
ActiveP4 == ContainingAddress(cr3)

\* The paging state while only the allocator is looked at.
PagingIdle ==
    /\ cr3 = 0
    /\ mem = <<>>
    /\ pc = "idle"
    /\ why = ""
    /\ shadow = <<>>
    /\ lastop = <<>>
    /\ boot = <<>>
    /\ tiny = <<>>
    /\ new_table = None
    /\ backup = None
    /\ old_table = None
    /\ work = <<>>
    /\ before = <<>>
    /\ handles = {}
    /\ PageIdle
    /\ TraceIdle
    /\ ApicIdle

\* The allocator's call state while only the paging code is looked at.
AllocIdle ==
    /\ apc = "idle"
    /\ count = 0
    /\ depth = 0
    /\ via = {}
    /\ result = NoRun
    /\ earlier = NoRun
    /\ entered = <<>>
    /\ exhausted = FALSE

Frames == 0 .. MaxFrame

\* The maximal runs of a set of usable frames, in ascending order: the
\* memory map the bootloader reports for it.
RECURSIVE RunsFrom(_, _)
RunsFrom(usable, f) ==
    IF f > MaxFrame THEN <<>>
    ELSE IF f \notin usable THEN RunsFrom(usable, f + 1)
    ELSE LET last == CHOOSE l \in f .. MaxFrame :
                        /\ \A x \in f .. l : x \in usable
                        /\ (l + 1) \notin usable
         IN  <<[base_addr |-> StartAddress(f),
                length    |-> StartAddress(last - f + 1)]>> \o RunsFrom(usable, last + 2)

MemoryMaps == {RunsFrom(usable, 0) : usable \in (SUBSET Frames) \ {{}}}

\* Reserved ranges [first, last] in frames, last inclusive.
ReservedRanges ==
    {r \in Frames \X Frames : r[1] <= r[2] /\ r[2] - r[1] < MaxReserved}

AllocInit ==
    /\ \E memory_areas \in MemoryMaps, k \in ReservedRanges, m \in ReservedRanges :
          allocator = NewAllocator(StartAddress(k[1]), StartAddress(k[2]),
                                   StartAddress(m[1]), StartAddress(m[2]),
                                   memory_areas)
    /\ AllocIdle
    /\ PagingIdle

\* A caller enters allocate_frame(c).
Call ==
    /\ apc = "idle"
    /\ \E c \in 0 .. MaxCount : count' = c
    /\ apc' = "alloc"
    /\ depth' = 0
    /\ via' = {}
    /\ earlier' \in IF result.some THEN {earlier, result} ELSE {earlier}
    /\ result' = NoRun
    /\ entered' = allocator
    /\ UNCHANGED <<allocator, exhausted, pgvars>>

\* The activation returns Some(start_frame).
ReturnSome ==
    /\ apc = "alloc"
    /\ LET s == AllocStep(allocator, count)
       IN  /\ s.out = "some"
           /\ allocator' = s.a
           /\ result' = [some |-> TRUE, start |-> s.frame, count |-> count, via |-> via]
    /\ apc' = "idle"
    /\ UNCHANGED <<count, depth, via, earlier, entered, exhausted, pgvars>>

\* The activation returns None.
ReturnNone ==
    /\ apc = "alloc"
    /\ LET s == AllocStep(allocator, count)
       IN  /\ s.out = "none"
           /\ allocator' = s.a
    /\ result' = NoRun
    /\ apc' = "idle"
    /\ exhausted' = (exhausted \/ count >= 1)
    /\ UNCHANGED <<count, depth, via, earlier, entered, pgvars>>

\* The activation found its candidate unusable and calls itself.
Retry ==
    /\ apc = "alloc"
    /\ depth < StackLimit
    /\ LET s == AllocStep(allocator, count)
       IN  /\ s.out \in {"area", "kernel", "multiboot"}
           /\ allocator' = s.a
           /\ via' = via \cup {s.out}
    /\ depth' = depth + 1
    /\ UNCHANGED <<apc, count, result, earlier, entered, exhausted, pgvars>>

\* The recursive call finds no stack left: the call never returns.
Overflow ==
    /\ apc = "alloc"
    /\ depth = StackLimit
    /\ AllocStep(allocator, count).out \in {"area", "kernel", "multiboot"}
    /\ apc' = "overflow"
    /\ UNCHANGED <<allocator, count, depth, via, result, earlier, entered, exhausted,
                   pgvars>>

AllocNext == Call \/ ReturnSome \/ ReturnNone \/ Retry \/ Overflow

AllocSpec == AllocInit /\ [][AllocNext]_vars

(***************************************************************************)
(* The Mapper driven by a caller: map_to and unmap of test pages in an     *)
(* address space that holds its recursive entry only.                      *)
(***************************************************************************)
\* Frames of the memory area the Mapper's allocator hands out from, after
\* the frames of the kernel and the boot information.
MaxPool == 6

\* The level-4 table of the Mapper's address space lives in the kernel.
MapperP4Frame == 1

\* Virtual addresses of the test pages: 0x1000 and 0x2000, two pages of one
\* level-1 table, and 0x40201000, a page under another level-2 table.
TestAddresses == {4096, 8192, 1075843072}

\* Frames the test pages are mapped to.
TestFrames == {40, 41}

\* In-page offsets looked up.
TestOffsets == {0, 1, PAGE_SIZE - 1}

RecursiveEntry(frame) == [frame |-> frame, flags |-> {PRESENT, WRITABLE}]

NeverMapped == [state |-> "never", frame |-> None, unmapped |-> None]

MapperInit ==
    /\ \E n \in 3 .. MaxPool :
          allocator = NewAllocator(StartAddress(1), StartAddress(2),
                                   StartAddress(3), StartAddress(3),
                                   <<[base_addr |-> 0, length |-> StartAddress(4 + n)]>>)
    /\ AllocIdle
    /\ cr3 = StartAddress(MapperP4Frame)
    /\ mem = (MapperP4Frame :> (511 :> RecursiveEntry(MapperP4Frame)))
    /\ pc = "ready"
    /\ why = ""
    /\ shadow = [a \in TestAddresses |-> NeverMapped]
    /\ lastop = [op |-> "none", address |-> 0, prior |-> "never"]
    /\ boot = <<>>
    /\ tiny = <<>>
    /\ new_table = None
    /\ backup = None
    /\ old_table = None
    /\ work = <<>>
    /\ before = <<>>
    /\ handles = {}
    /\ PageIdle
    /\ TraceIdle
    /\ ApicIdle

\* A caller maps the page of a test address to a frame.
MapperMapTo ==
    /\ pc = "ready"
    /\ \E address \in TestAddresses, frame \in TestFrames :
          \E r \in {MapTo(ActiveP4, mem, AreaAlloc(allocator),
                         PageContainingAddress(address), frame, {WRITABLE})} :
              /\ mem' = r.m
              /\ allocator' = r.al.a
              /\ pc' = IF r.ok THEN "ready" ELSE "panic"
              /\ why' = r.why
              /\ shadow' = IF r.ok
                           THEN [shadow EXCEPT ![address].state = "mapped",
                                               ![address].frame = frame]
                           ELSE shadow
              /\ lastop' = [op |-> "map_to", address |-> address,
                            prior |-> shadow[address].state]
    /\ UNCHANGED <<cr3, avars, ivars, svars, tvars>>

\* A caller unmaps the page of a test address.
MapperUnmap ==
    /\ pc = "ready"
    /\ \E address \in TestAddresses :
          \E r \in {Unmap(ActiveP4, mem, PageContainingAddress(address))} :
              /\ mem' = r.m
              /\ pc' = IF r.ok THEN "ready" ELSE "panic"
              /\ why' = r.why
              /\ shadow' = IF r.ok
                           THEN [shadow EXCEPT ![address].state = "unmapped",
                                               ![address].unmapped = shadow[address].frame]
                           ELSE shadow
              /\ lastop' = [op |-> "unmap", address |-> address,
                            prior |-> shadow[address].state]
    /\ UNCHANGED <<cr3, allocator, avars, ivars, svars, tvars>>

MapperNext == MapperMapTo \/ MapperUnmap

MapperSpec == MapperInit /\ [][MapperNext]_vars

(***************************************************************************)
(* paging_init (paging/mod.rs), step by step.  pc names the step that is   *)
(* next: "start", "alloc_p4", "new_map", "new_init", "new_unmap" (the three*)
(* steps of InactivePageTable::new), "with_map", "with_point",            *)
(* "with_flush", "f_tag", "f_map" (the closure), "with_flushed",           *)
(* "with_unmap", "switch", "guard", and then "done" or "panic".            *)
(***************************************************************************)
\* Frames the area of the memory map may hold.
InitPool == 10

\* The area of the memory map starts at 0x18000.
AreaBase == 24

\* The temporary page's allocator holds three frames, one per table level
\* the temporary page's own mapping may need.
TinyPoolSize == 3

\* Page { number: 0xcafebabe }, as its four indices.
TempPage == <<25, 191, 349, 190>>

\* Frame::containing_address(0xb8000)
VgaBufferFrame == ContainingAddress(753664)

\* ElfSection::start_address / end_address
SectionStart(section) == section.addr

SectionEnd(section) == section.addr + section.size

\* The frames a section touches.
SectionFrameSet(section) ==
    ContainingAddress(SectionStart(section)) .. ContainingAddress(SectionEnd(section) - 1)

\* The frames of the allocated sections of a section table.
AllocatedFrames(sections) ==
    UNION {SectionFrameSet(sections[i]) :
              i \in {j \in DOMAIN sections : sections[j].allocated}}

\* The frames of the boot information structure.
BootInfoFrames(b) ==
    ContainingAddress(b.extent[1]) .. ContainingAddress(b.extent[2] - 1)

Section(addr_, size_, allocated_, writable_, executable_) ==
    [addr |-> addr_, size |-> size_, allocated |-> allocated_,
     writable |-> writable_, executable |-> executable_]

\* Section tables of a kernel image: one section [0x10000, 0x16000); two
\* loaded sections around one that is not loaded, with ends inside a page;
\* and a loaded section that does not start on a page boundary.
SectionLayouts ==
    { <<Section(65536, 24576, TRUE, FALSE, TRUE)>>,
      <<Section(65536, 6144, TRUE, FALSE, TRUE),
        Section(0, 1024, FALSE, FALSE, FALSE),
        Section(77824, 14336, TRUE, TRUE, FALSE)>>,
      <<Section(65536, 20480, TRUE, FALSE, TRUE),
        Section(88064, 2048, TRUE, TRUE, FALSE)>> }

\* start_address and end_address of the boot information structure: inside
\* the area of the memory map, or high up at 0x258008.
BootInfoExtents == {<<106496, 111616>>, <<2457608, 2458368>>}

\* Boot informations; p4 is the frame of the level-4 table the boot code
\* set up, a frame of the kernel image.
BootInfos ==
    {b \in [has_elf_tag : BOOLEAN, sections : SectionLayouts,
            extent : BootInfoExtents, p4 : 16 .. 22] :
        b.p4 \in AllocatedFrames(b.sections)}

\* The elements of a set of numbers in ascending order.
RECURSIVE Ascending(_)
Ascending(S) ==
    IF S = {} THEN <<>>
    ELSE LET least == CHOOSE x \in S : \A y \in S : x <= y
         IN  <<least>> \o Ascending(S \ {least})

\* The frames the boot code's address space maps to themselves: the first
\* 32 frames, the VGA buffer and frame 600.
BootMappedLow == (0 .. 31) \cup {VgaBufferFrame}

BootMappedHigh == {600}

TableEntry(frame) == [frame |-> frame, flags |-> {PRESENT, WRITABLE}]

\* The address space the boot code hands over: a level-4 table with the
\* recursive entry, and 4 KiB identity mappings below it; t are the frames
\* of its lower tables, frames of the kernel image.
BootTablesIn(p4, t) ==
    (p4 :> (0 :> TableEntry(t[1]) @@ 511 :> RecursiveEntry(p4)))
    @@ (t[1] :> (0 :> TableEntry(t[2])))
    @@ (t[2] :> (0 :> TableEntry(t[3]) @@ 1 :> TableEntry(t[4])))
    @@ (t[3] :> [i \in BootMappedLow |-> TableEntry(i)])
    @@ (t[4] :> [i \in {f % ENTRY_COUNT : f \in BootMappedHigh} |->
                    TableEntry(ENTRY_COUNT + i)])

BootTables(b) == BootTablesIn(b.p4, Ascending(AllocatedFrames(b.sections) \ {b.p4}))

\* kernel_start and kernel_end as memory::init hands them to the allocator:
\* the least start and the greatest end of the allocated sections.
KernelStart(sections) ==
    StartAddress(CHOOSE f \in AllocatedFrames(sections) :
                    \A g \in AllocatedFrames(sections) : f <= g)

KernelEnd(sections) ==
    CHOOSE e \in {SectionEnd(sections[i]) : i \in DOMAIN sections} :
        \A i \in DOMAIN sections : sections[i].allocated => SectionEnd(sections[i]) <= e

\* Pages whose translation is recorded when `with` is entered: pages of the
\* frames around the kernel, the temporary page and its neighbour, and
\* pages of the recursive region.
ProbePages ==
    {PageContainingAddress(StartAddress(f)) :
        f \in (14 .. 36) \cup {VgaBufferFrame, 183, 600, 601}}
    \cup {TempPage, <<25, 191, 349, 191>>, P4, <<511, 511, 511, 0>>,
          <<511, 511, 511, 25>>, <<511, 511, 25, 191>>, <<511, 25, 191, 349>>,
          <<511, 511, 0, 0>>, <<511, 511, 0, 1>>, <<511, 0, 0, 0>>, <<511, 0, 0, 1>>}

NoSnapshot == <<>>

Snapshot(c, m, base) ==
    [cr3 |-> base, translate |-> [p \in ProbePages |-> TranslatePage(c, m, p)]]

\* TinyAllocator::new: k calls of allocate_frame(1) on the allocator.
RECURSIVE TinyFill(_, _)
TinyFilled(r, rest) == [al |-> rest.al, frames |-> <<r.frame>> \o rest.frames]

TinyFill(al, k) ==
    IF k = 0 THEN [al |-> al, frames |-> <<>>]
    ELSE Only({Only({TinyFilled(r, rest) : rest \in {TinyFill(r.al, k - 1)}}) :
                  r \in {Allocate1(al)}})

\* EntryFlags::from_elf_section_flags
FromElfSectionFlags(section) ==
    (IF section.allocated THEN {PRESENT} ELSE {})
    \cup (IF section.writable THEN {WRITABLE} ELSE {})
    \cup (IF section.executable THEN {} ELSE {NO_EXECUTE})

\* Frame::range_inclusive, as the sequence the loop goes through.
RangeInclusive(start_frame, end_frame) ==
    [i \in 1 .. (end_frame - start_frame + 1) |-> start_frame + i - 1]

MapItem(frame, flags) == [op |-> "map", frame |-> frame, flags |-> flags]

MapItems(frames, flags) == [i \in DOMAIN frames |-> MapItem(frames[i], flags)]

AssertItem == [op |-> "assert", frame |-> 0, flags |-> {}]

\* The mutant of the loop over a section's frames that maps the first
\* frame only.
SectionWorkStartOnly(section) ==
    MapItems(<<ContainingAddress(SectionStart(section))>>, FromElfSectionFlags(section))

\* Lines 239-245: the identity maps of one allocated, aligned section.
SectionWork(section) ==
    MapItems(RangeInclusive(ContainingAddress(SectionStart(section)),
                            ContainingAddress(SectionEnd(section) - 1)),
             FromElfSectionFlags(section))

\* Lines 224-246: what the loop over the sections does from section i on.
\* A failing assertion ends it.
RECURSIVE SectionsWork(_, _)
SectionsWork(sections, i) ==
    IF i > Len(sections) THEN <<>>
    ELSE IF ~sections[i].allocated THEN SectionsWork(sections, i + 1)
    ELSE IF sections[i].addr % PAGE_SIZE # 0 THEN <<AssertItem>>
    ELSE SectionWork(sections[i]) \o SectionsWork(sections, i + 1)

\* Lines 224-257: the closure's work after elf_sections_tag was found.
ClosureWork(b) ==
    SectionsWork(b.sections, 1)
    \o <<MapItem(VgaBufferFrame, {WRITABLE})>>
    \o MapItems(RangeInclusive(ContainingAddress(b.extent[1]),
                               ContainingAddress(b.extent[2] - 1)), {PRESENT})

InitInit ==
    /\ \E b \in BootInfos, n \in 1 .. InitPool :
          /\ boot = b
          /\ allocator = NewAllocator(KernelStart(b.sections), KernelEnd(b.sections),
                                      b.extent[1], b.extent[2],
                                      <<[base_addr |-> StartAddress(AreaBase),
                                         length |-> StartAddress(n)]>>)
          /\ cr3 = StartAddress(b.p4)
          /\ mem = BootTables(b)
    /\ AllocIdle
    /\ pc = "start"
    /\ why = ""
    /\ shadow = <<>>
    /\ lastop = <<>>
    /\ tiny = <<>>
    /\ new_table = None
    /\ backup = None
    /\ old_table = None
    /\ work = <<>>
    /\ before = NoSnapshot
    /\ handles = {}
    /\ PageIdle
    /\ TraceIdle
    /\ ApicIdle

\* The step is recorded.
Logged(event) == trace' = Append(trace, event)

\* How a step that changes tables ends: r is what the Mapper gave.
TablesStep(r, next) ==
    /\ mem' = r.m
    /\ pc' = IF r.ok THEN next ELSE "panic"
    /\ why' = r.why

\* Line 209: TemporaryPage::new fills its allocator from the allocator.
TempPageNew ==
    /\ pc = "start"
    /\ \E r \in {TinyFill(AreaAlloc(allocator), TinyPoolSize)} :
          /\ tiny' = r.frames
          /\ allocator' = r.al.a
    /\ pc' = "alloc_p4"
    /\ UNCHANGED <<cr3, mem, why, boot, new_table, backup, old_table, work, before,
                   avars, mvars, svars, tvars>>

\* What a frame fresh from the allocator may hold: nothing that was ever a
\* table, or what is left of one, with entries that look present.
StaleTables ==
    {EmptyTable,
     (0 :> [frame |-> 16, flags |-> {PRESENT, WRITABLE}])
         @@ (25 :> [frame |-> 17, flags |-> {PRESENT}])
         @@ (511 :> [frame |-> 18, flags |-> {PRESENT, WRITABLE}])}

\* Line 214: allocate_frame(1).expect("no more frames"); the frame holds
\* whatever was left in it.
AllocP4 ==
    /\ pc = "alloc_p4"
    /\ \E r \in {Allocate1(AreaAlloc(allocator))} :
          /\ allocator' = r.al.a
          /\ new_table' = r.frame
          /\ pc' = IF r.frame = None THEN "panic" ELSE "new_map"
          /\ why' = IF r.frame = None THEN "no more frames" ELSE ""
          /\ \E stale \in StaleTables :
                mem' = IF r.frame = None \/ stale = EmptyTable THEN mem
                       ELSE [f \in DOMAIN mem \cup {r.frame} |->
                                IF f = r.frame THEN stale ELSE mem[f]]
    /\ UNCHANGED <<cr3, boot, tiny, backup, old_table, work, before, avars, mvars, svars, tvars>>

\* Line 191: temporary_page.map_table_frame(frame, active_table)
NewMapTableFrame ==
    /\ pc = "new_map"
    /\ Logged("new_map")
    /\ \E r \in {MapTo(ActiveP4, mem, TinyAlloc(tiny), TempPage, new_table, {WRITABLE})} :
          /\ TablesStep(r, "new_init")
          /\ tiny' = r.al.frames
    /\ UNCHANGED <<cr3, allocator, boot, new_table, backup, old_table, work, before,
                   avars, mvars, svars>>

\* The mutant of lines 192-193 that sets entry 511 of the table as it
\* finds it.
NewRecurseOnly ==
    /\ pc = "new_init"
    /\ Logged("new_init")
    /\ \E m1 \in {IF new_table \in DOMAIN mem THEN mem ELSE ZeroTable(ActiveP4, mem, TempPage)} :
          mem' = WriteEntry(ActiveP4, m1, TempPage, 511, RecursiveEntry(new_table))
    /\ pc' = "new_unmap"
    /\ UNCHANGED <<cr3, allocator, why, ivars, avars, mvars, svars>>

\* Lines 192-193: table.zero(); table[511].set(frame, PRESENT | WRITABLE)
NewZeroAndRecurse ==
    /\ pc = "new_init"
    /\ Logged("new_init")
    /\ \E m1 \in {ZeroTable(ActiveP4, mem, TempPage)} :
          mem' = WriteEntry(ActiveP4, m1, TempPage, 511, RecursiveEntry(new_table))
    /\ pc' = "new_unmap"
    /\ UNCHANGED <<cr3, allocator, why, ivars, avars, mvars, svars>>

\* The mutant of new that returns with the temporary page still mapped.
NewUnmapLeftOut ==
    /\ pc = "new_unmap"
    /\ Logged("new_returns")
    /\ pc' = "with_map"
    /\ UNCHANGED <<cr3, mem, allocator, why, ivars, avars, mvars, svars>>

\* Line 195: temporary_page.unmap(active_table)
NewUnmap ==
    /\ pc = "new_unmap"
    /\ Logged("new_unmap")
    /\ \E r \in {Unmap(ActiveP4, mem, TempPage)} : TablesStep(r, "with_map")
    /\ UNCHANGED <<cr3, allocator, ivars, avars, mvars, svars>>

\* Lines 141-144: backup is read from the base register and mapped at the
\* temporary page.
WithMapBackup ==
    /\ pc = "with_map"
    /\ Logged("map_backup")
    /\ backup' = ContainingAddress(cr3)
    /\ before' = Snapshot(ActiveP4, mem, cr3)
    /\ \E r \in {MapTo(ActiveP4, mem, TinyAlloc(tiny), TempPage,
                       ContainingAddress(cr3), {WRITABLE})} :
          /\ TablesStep(r, "with_point")
          /\ tiny' = r.al.frames
    /\ UNCHANGED <<cr3, allocator, boot, new_table, old_table, work, avars, mvars, svars>>

\* The mutant of the repointing write that goes on to the closure without
\* the flush.
WithRepointNoFlush ==
    /\ pc = "with_point"
    /\ Logged("point_inactive")
    /\ mem' = WriteEntry(ActiveP4, mem, P4, 511, RecursiveEntry(new_table))
    /\ pc' = "f_tag"
    /\ UNCHANGED <<cr3, allocator, why, ivars, avars, mvars, svars>>

\* Lines 147-150: the recursive entry is pointed at the inactive table.
WithRepoint ==
    /\ pc = "with_point"
    /\ Logged("point_inactive")
    /\ mem' = WriteEntry(ActiveP4, mem, P4, 511, RecursiveEntry(new_table))
    /\ pc' = "with_flush"
    /\ UNCHANGED <<cr3, allocator, why, ivars, avars, mvars, svars>>

\* Line 151: tlb::flush_all() before the closure runs.
WithFlush ==
    /\ pc = "with_flush"
    /\ Logged("flush_all")
    /\ pc' = "f_tag"
    /\ UNCHANGED <<cr3, mem, allocator, why, ivars, avars, mvars, svars>>

\* Lines 219-221: elf_sections_tag().expect("Memory map tag required")
FElfSectionsTag ==
    /\ pc = "f_tag"
    /\ IF boot.has_elf_tag
       THEN /\ work' = ClosureWork(boot)
            /\ pc' = "f_map"
            /\ why' = ""
       ELSE /\ work' = work
            /\ pc' = "panic"
            /\ why' = "Memory map tag required"
    /\ UNCHANGED <<cr3, mem, allocator, boot, tiny, new_table, backup, old_table, before,
                   avars, mvars, svars, tvars>>

\* The mutant of the alignment assertion that lets the section pass.
FAssertAlignedPassed ==
    /\ pc = "f_map"
    /\ work # <<>>
    /\ Head(work).op = "assert"
    /\ work' = Tail(work)
    /\ UNCHANGED <<cr3, mem, allocator, pc, why, boot, tiny, new_table, backup, old_table,
                   before, avars, mvars, svars, tvars>>

\* Lines 230-233: the assertion on a section's alignment fails.
FAssertAligned ==
    /\ pc = "f_map"
    /\ work # <<>>
    /\ Head(work).op = "assert"
    /\ pc' = "panic"
    /\ why' = "sections need to be page aligned"
    /\ UNCHANGED <<cr3, mem, allocator, ivars, avars, mvars, svars, tvars>>

\* Lines 244, 250, 256: the next mapper.identity_map(frame, flags, allocator)
FIdentityMap ==
    /\ pc = "f_map"
    /\ Logged("identity_map")
    /\ work # <<>>
    /\ Head(work).op = "map"
    /\ \E r \in {IdentityMap(ActiveP4, mem, AreaAlloc(allocator),
                             Head(work).frame, Head(work).flags)} :
          /\ TablesStep(r, "f_map")
          /\ allocator' = r.al.a
    /\ work' = Tail(work)
    /\ UNCHANGED <<cr3, boot, tiny, new_table, backup, old_table, before, avars, mvars, svars>>

\* The mutant of the restoring write that sets PRESENT alone.
WithRestoreReadOnly ==
    /\ pc = "f_map"
    /\ Logged("restore_backup")
    /\ work = <<>>
    /\ mem' = WriteEntry(ActiveP4, mem, TempPage, 511,
                         [frame |-> backup, flags |-> {PRESENT}])
    /\ pc' = "with_flushed"
    /\ UNCHANGED <<cr3, allocator, why, ivars, avars, mvars, svars>>

\* Line 157: the closure has returned; the recursive entry is set back
\* through the temporary page.
WithRestore ==
    /\ pc = "f_map"
    /\ Logged("restore_backup")
    /\ work = <<>>
    /\ mem' = WriteEntry(ActiveP4, mem, TempPage, 511, RecursiveEntry(backup))
    /\ pc' = "with_flushed"
    /\ UNCHANGED <<cr3, allocator, why, ivars, avars, mvars, svars>>

\* Line 158: tlb::flush_all() after the recursive entry is set back.
WithFlushRestored ==
    /\ pc = "with_flushed"
    /\ Logged("flush_all")
    /\ pc' = "with_unmap"
    /\ UNCHANGED <<cr3, mem, allocator, why, ivars, avars, mvars, svars>>

\* Line 161: temporary_page.unmap(self)
WithUnmap ==
    /\ pc = "with_unmap"
    /\ Logged("unmap_temp")
    /\ \E r \in {Unmap(ActiveP4, mem, TempPage)} : TablesStep(r, "switch")
    /\ UNCHANGED <<cr3, allocator, ivars, avars, mvars, svars>>

\* The mutant of switch that writes the old table's frame to the register.
SwitchWritesOld ==
    /\ pc = "switch"
    /\ Logged("write_cr3")
    /\ old_table' = ContainingAddress(cr3)
    /\ cr3' = StartAddress(ContainingAddress(cr3))
    /\ pc' = "guard"
    /\ UNCHANGED <<mem, allocator, why, boot, tiny, new_table, backup, work, before,
                   avars, mvars, svars>>

\* Lines 165-176 and 260: switch
Switch ==
    /\ pc = "switch"
    /\ Logged("write_cr3")
    /\ old_table' = ContainingAddress(cr3)
    /\ cr3' = StartAddress(new_table)
    /\ pc' = "guard"
    /\ UNCHANGED <<mem, allocator, why, boot, tiny, new_table, backup, work, before,
                   avars, mvars, svars>>

\* The mutant of the last step that leaves the unmap out.
UnmapGuardLeftOut ==
    /\ pc = "guard"
    /\ Logged("guard_left_out")
    /\ pc' = "done"
    /\ UNCHANGED <<cr3, mem, allocator, why, ivars, avars, mvars, svars>>

\* Lines 263-264: the page of the old level-4 table's frame is unmapped.
UnmapGuard ==
    /\ pc = "guard"
    /\ Logged("unmap_guard")
    /\ \E r \in {Unmap(ActiveP4, mem,
                       PageContainingAddress(StartAddress(old_table)))} :
          TablesStep(r, "done")
    /\ UNCHANGED <<cr3, allocator, ivars, avars, mvars, svars>>

InitNext ==
    \/ TempPageNew
    \/ AllocP4
    \/ NewMapTableFrame
    \/ NewZeroAndRecurse
    \/ NewUnmap
    \/ WithMapBackup
    \/ WithRepoint
    \/ WithFlush
    \/ FElfSectionsTag
    \/ FAssertAligned
    \/ FIdentityMap
    \/ WithRestore
    \/ WithFlushRestored
    \/ WithUnmap
    \/ Switch
    \/ UnmapGuard

InitSpec == InitInit /\ [][InitNext]_vars

(***************************************************************************)
(* Address spaces: any sequence of TemporaryPage::new,                     *)
(* InactivePageTable::new, ActivePageTable::with and ActivePageTable::     *)
(* switch, each call one step.  The frames given to InactivePageTable::new *)
(* come from the allocator; the closure given to `with` maps or unmaps a   *)
(* page outside the recursive region, or does nothing.                     *)
(***************************************************************************)
\* Frames the area of the memory map holds for the address spaces.
MaxSpacePool == 10

\* InactivePageTable handles that may exist at a time.
MaxHandles == 2

\* What the closure given to `with` does.
SpaceJobs ==
    {[op |-> "none", page |-> <<>>, frame |-> None]}
    \cup {[op |-> "map", page |-> PageContainingAddress(a), frame |-> 40] :
             a \in {4096}}
    \cup {[op |-> "unmap", page |-> PageContainingAddress(a), frame |-> None] :
             a \in {4096}}

\* What a call on the address spaces leaves: memory, the temporary page's
\* frames, the allocator, and whether it returned (ok) or panicked.
SpaceResult(ok_, m, tinyf, al, why_) ==
    [ok |-> ok_, m |-> m, tiny |-> tinyf, al |-> al, why |-> why_]

\* Lines 192-195: the frame behind the temporary page is zeroed, its entry
\* 511 set to itself, the temporary page unmapped.
NewUnmapped(r, tinyf) == SpaceResult(r.ok, r.m, tinyf, None, r.why)

NewInitialised(c, m2, tinyf) ==
    Only({NewUnmapped(r, tinyf) : r \in {Unmap(c, m2, TempPage)}})

\* The mutant of InactivePageTable::new that zeroes the table and leaves
\* its entry 511 unset.
NewMappedZeroOnly(c, r1, frame) ==
    IF ~r1.ok THEN SpaceResult(FALSE, r1.m, r1.al.frames, None, r1.why)
    ELSE Only({NewInitialised(c, m2, r1.al.frames) :
                  m2 \in {ZeroTable(c, r1.m, TempPage)}})

NewMapped(c, r1, frame) ==
    IF ~r1.ok THEN SpaceResult(FALSE, r1.m, r1.al.frames, None, r1.why)
    ELSE Only({NewInitialised(c, m2, r1.al.frames) :
                  m2 \in {WriteEntry(c, ZeroTable(c, r1.m, TempPage), TempPage, 511,
                                     RecursiveEntry(frame))}})

\* InactivePageTable::new(frame, active_table, temporary_page)
InactiveNew(c, m, tinyf, frame) ==
    Only({NewMapped(c, r1, frame) :
             r1 \in {MapTo(c, m, TinyAlloc(tinyf), TempPage, frame, {WRITABLE})}})

\* The closure's call on the Mapper.
JobResult(r, al) == [ok |-> r.ok, m |-> r.m, al |-> al, why |-> r.why]

RunJob(c, m, al, job) ==
    IF job.op = "map"
    THEN Only({JobResult(r, r.al.a) :
                  r \in {MapTo(c, m, AreaAlloc(al), job.page, job.frame, {WRITABLE})}})
    ELSE IF job.op = "unmap"
    THEN Only({JobResult(r, al) : r \in {Unmap(c, m, job.page)}})
    ELSE [ok |-> TRUE, m |-> m, al |-> al, why |-> ""]

\* Lines 157-161: the recursive entry is set back through the temporary
\* page, the temporary page unmapped.
WithUnmapped(r4, tinyf, al) == SpaceResult(r4.ok, r4.m, tinyf, al, r4.why)

WithRestored(c, m3, tinyf, al) ==
    Only({WithUnmapped(r4, tinyf, al) : r4 \in {Unmap(c, m3, TempPage)}})

WithAfterF(c, rf, tinyf, backup_) ==
    IF ~rf.ok THEN SpaceResult(FALSE, rf.m, tinyf, rf.al, rf.why)
    ELSE Only({WithRestored(c, m3, tinyf, rf.al) :
                  m3 \in {WriteEntry(c, rf.m, TempPage, 511, RecursiveEntry(backup_))}})

\* Lines 147-154: the recursive entry is pointed at the inactive table and
\* the closure runs.
WithRepointed(c, m2, tinyf, al, job, backup_) ==
    Only({WithAfterF(c, rf, tinyf, backup_) : rf \in {RunJob(c, m2, al, job)}})

WithMapped(c, r1, al, table, job, backup_) ==
    IF ~r1.ok THEN SpaceResult(FALSE, r1.m, r1.al.frames, al, r1.why)
    ELSE Only({WithRepointed(c, m2, r1.al.frames, al, job, backup_) :
                  m2 \in {WriteEntry(c, r1.m, P4, 511, RecursiveEntry(table))}})

\* ActivePageTable::with(table, temporary_page, f); c is the frame read
\* from the base register.
WithCall(c, m, tinyf, al, table, job) ==
    Only({WithMapped(c, r1, al, table, job, c) :
             r1 \in {MapTo(c, m, TinyAlloc(tinyf), TempPage, c, {WRITABLE})}})

\* The mutant of switch that reads the base register after writing it.
SwitchReturnReadLate(base, new_frame) ==
    [cr3 |-> StartAddress(new_frame),
     old_table |-> ContainingAddress(StartAddress(new_frame))]

\* ActivePageTable::switch(new_table): the register after it, and the
\* frame of the handle returned.
SwitchReturn(base, new_frame) ==
    [cr3 |-> StartAddress(new_frame), old_table |-> ContainingAddress(base)]

\* The record of a call: the register before it, its argument, the frame
\* of the handle it returned.
CallOf(op_, base, arg_, ret_) == [op |-> op_, before |-> base, arg |-> arg_, ret |-> ret_]

NoCall == CallOf("none", 0, None, None)

Called(call, last) == [call |-> call, prev |-> last.call]

SpaceInit ==
    /\ \E n \in 4 .. MaxSpacePool :
          allocator = NewAllocator(StartAddress(1), StartAddress(2),
                                   StartAddress(3), StartAddress(3),
                                   <<[base_addr |-> 0, length |-> StartAddress(4 + n)]>>)
    /\ AllocIdle
    /\ cr3 = StartAddress(MapperP4Frame)
    /\ mem = (MapperP4Frame :> (511 :> RecursiveEntry(MapperP4Frame)))
    /\ pc = "ready"
    /\ why = ""
    /\ shadow = <<>>
    /\ lastop = [call |-> NoCall, prev |-> NoCall]
    /\ boot = <<>>
    /\ tiny = <<>>
    /\ new_table = None
    /\ backup = None
    /\ old_table = None
    /\ work = <<>>
    /\ before = NoSnapshot
    /\ handles = {}
    /\ PageIdle
    /\ TraceIdle
    /\ ApicIdle

\* TemporaryPage::new, once the frames of the one before are used up.
SpaceTempPage ==
    /\ pc = "ready"
    /\ \A i \in DOMAIN tiny : tiny[i] = None
    /\ \E r \in {TinyFill(AreaAlloc(allocator), TinyPoolSize)} :
          /\ tiny' = r.frames
          /\ allocator' = r.al.a
    /\ lastop' = Called(CallOf("temporary_page", cr3, None, None), lastop)
    /\ UNCHANGED <<cr3, mem, pc, why, shadow, boot, new_table, backup, old_table, work,
                   before, handles, vaddr, page, trace, ioapic, avars>>

\* A frame is allocated and InactivePageTable::new makes a table of it.
SpaceNew ==
    /\ pc = "ready"
    /\ tiny # <<>>
    /\ Cardinality(handles) < MaxHandles
    /\ \E a \in {Allocate1(AreaAlloc(allocator))} :
          /\ allocator' = a.al.a
          /\ IF a.frame = None
             THEN /\ pc' = "panic"
                  /\ why' = "no more frames"
                  /\ UNCHANGED <<mem, tiny, handles>>
             ELSE \E r \in {InactiveNew(ActiveP4, mem, tiny, a.frame)} :
                      /\ mem' = r.m
                      /\ tiny' = r.tiny
                      /\ pc' = IF r.ok THEN "ready" ELSE "panic"
                      /\ why' = r.why
                      /\ handles' = IF r.ok THEN handles \cup {a.frame} ELSE handles
          /\ lastop' = Called(CallOf("new", cr3, a.frame, a.frame), lastop)
    /\ UNCHANGED <<cr3, shadow, boot, new_table, backup, old_table, work, before,
                   vaddr, page, trace, ioapic, avars>>

\* `with` is called on a handle.
SpaceWith ==
    /\ pc = "ready"
    /\ tiny # <<>>
    /\ \E table \in handles, job \in SpaceJobs :
          /\ \E r \in {WithCall(ActiveP4, mem, tiny, allocator, table, job)} :
                /\ mem' = r.m
                /\ tiny' = r.tiny
                /\ allocator' = r.al
                /\ pc' = IF r.ok THEN "ready" ELSE "panic"
                /\ why' = r.why
          /\ lastop' = Called(CallOf("with", cr3, table, None), lastop)
    /\ UNCHANGED <<cr3, shadow, boot, new_table, backup, old_table, work, before,
                   handles, vaddr, page, trace, ioapic, avars>>

\* switch is called with a handle, which it consumes; the handle it returns
\* comes to exist.
SpaceSwitch ==
    /\ pc = "ready"
    /\ \E table \in handles :
          \E r \in {SwitchReturn(cr3, table)} :
              /\ cr3' = r.cr3
              /\ handles' = (handles \ {table}) \cup {r.old_table}
              /\ lastop' = Called(CallOf("switch", cr3, table, r.old_table), lastop)
    /\ UNCHANGED <<mem, allocator, pc, why, shadow, boot, tiny, new_table, backup,
                   old_table, work, before, vaddr, page, trace, ioapic, avars>>

SpaceNext == SpaceTempPage \/ SpaceNew \/ SpaceWith \/ SpaceSwitch

SpaceSpec == SpaceInit /\ [][SpaceNext]_vars

(***************************************************************************)
(* Page::containing_address and Page::start_address on 64-bit addresses.   *)
(* An address is the tuple <<t, i4, i3, i2, i1, offset>> of its bits       *)
(* 63..48, its four 9-bit table indices (bits 47..39, 38..30, 29..21,      *)
(* 20..12) and its low 12 bits: its digits in the mixed radix 65536, 512,  *)
(* 512, 512, 512, 4096.  Numbers compare as their digits do, from the      *)
(* left; dividing by PAGE_SIZE drops the last digit, multiplying by it     *)
(* appends the digit 0.                                                    *)
(***************************************************************************)
\* The radix of each digit of an address.
Radix == <<65536, ENTRY_COUNT, ENTRY_COUNT, ENTRY_COUNT, ENTRY_COUNT, PAGE_SIZE>>

\* a < b for two numbers of as many digits.
RECURSIVE DigitsLess(_, _, _)
DigitsLess(a, b, k) ==
    IF k > Len(a) THEN FALSE
    ELSE IF a[k] # b[k] THEN a[k] < b[k]
    ELSE DigitsLess(a, b, k + 1)

AddressLess(a, b) == DigitsLess(a, b, 1)

\* 0x0000_8000_0000_0000 and 0xffff_8000_0000_0000
LowerHalfEnd == <<0, 256, 0, 0, 0, 0>>

HigherHalfStart == <<65535, 256, 0, 0, 0, 0>>

\* address / PAGE_SIZE: a page number, five digits.
DivPageSize(address) == SubSeq(address, 1, 5)

\* number * PAGE_SIZE
TimesPageSize(number) == number \o <<0>>

\* The mutant of Page::containing_address whose first comparison is <=.
PageContainingInclusive(address) ==
    IF \/ AddressLess(address, LowerHalfEnd) \/ address = LowerHalfEnd
       \/ ~AddressLess(address, HigherHalfStart)
    THEN [ok |-> TRUE, number |-> DivPageSize(address), why |-> ""]
    ELSE [ok |-> FALSE, number |-> <<>>, why |-> "invalid address"]

\* Page::containing_address: the assertion, then the page number.
PageContaining(address) ==
    IF AddressLess(address, LowerHalfEnd) \/ ~AddressLess(address, HigherHalfStart)
    THEN [ok |-> TRUE, number |-> DivPageSize(address), why |-> ""]
    ELSE [ok |-> FALSE, number |-> <<>>, why |-> "invalid address"]

\* The mutant of Page::start_address that leaves the low bits of the page
\* number's last digit in the offset.
PageStartKeepsBit(number) == number \o <<number[5] % 2>>

\* Page::start_address
PageStart(number) == TimesPageSize(number)

\* Addresses handed to Page::containing_address: around both ends of both
\* halves, with the least and the greatest indices and offsets.
TopBits == {0, 1, 32767, 32768, 65534, 65535}

TopIndices == {0, 255, 256, 511}

LowIndices == {0, 511}

Offsets == {0, 1, PAGE_SIZE - 1}

VirtualAddresses ==
    {<<t, i4, i, i, i, o>> : t \in TopBits, i4 \in TopIndices, i \in LowIndices,
                             o \in Offsets}

NoPage == <<>>

PageInit ==
    /\ allocator = <<>>
    /\ AllocIdle
    /\ cr3 = 0
    /\ mem = <<>>
    /\ pc = "ready"
    /\ why = ""
    /\ shadow = <<>>
    /\ lastop = <<>>
    /\ boot = <<>>
    /\ tiny = <<>>
    /\ new_table = None
    /\ backup = None
    /\ old_table = None
    /\ work = <<>>
    /\ before = <<>>
    /\ handles = {}
    /\ vaddr \in VirtualAddresses
    /\ page = NoPage
    /\ TraceIdle
    /\ ApicIdle

\* Page::containing_address(vaddr) is called.
PageCall ==
    /\ pc = "ready"
    /\ page = NoPage
    /\ page' = PageContaining(vaddr)
    /\ pc' = IF page'.ok THEN "ready" ELSE "panic"
    /\ why' = page'.why
    /\ UNCHANGED <<allocator, avars, cr3, mem, mvars, ivars, handles, vaddr, trace, ioapic>>

\* The caller goes on with another address.
PageAgain ==
    /\ pc = "ready"
    /\ page # NoPage
    /\ \E a \in VirtualAddresses : vaddr' = a
    /\ page' = NoPage
    /\ UNCHANGED <<allocator, avars, cr3, mem, pc, why, mvars, ivars, handles, trace, ioapic>>

PageNext == PageCall \/ PageAgain

PageSpec == PageInit /\ [][PageNext]_vars

(***************************************************************************)
(* Table::next_table and Table::next_table_create called on the tables of  *)
(* the active address space, whose entries may carry any flags.            *)
(* Addresses are 64-bit values in the digits of Radix.                     *)
(***************************************************************************)
\* Frames of the pool next_table_create allocates from.
TablePool == <<5, 6>>

\* The indices the calls are made with.
TableIndices == {0, 1}

\* What an entry may hold before a call: nothing, a child table, a huge
\* page that is present, the huge-page flag alone, flags without PRESENT.
TableEntries ==
    {UnusedEntry,
     [frame |-> 2, flags |-> {PRESENT, WRITABLE}],
     [frame |-> 3, flags |-> {PRESENT, HUGE_PAGE}],
     [frame |-> 3, flags |-> {HUGE_PAGE}],
     [frame |-> 3, flags |-> {WRITABLE}]}

\* `x | y` of two numbers.
RECURSIVE BitOr(_, _)
BitOr(x, y) ==
    IF x = 0 THEN y
    ELSE IF y = 0 THEN x
    ELSE (IF x % 2 = 1 \/ y % 2 = 1 THEN 1 ELSE 0) + 2 * BitOr(x \div 2, y \div 2)

\* `table_address << 9` of a 64-bit address: every bit moves up nine
\* places, the top nine bits are lost.
ShiftLeft9(a) ==
    <<(a[1] % 128) * ENTRY_COUNT + a[2], a[3], a[4], a[5], a[6] \div 8,
      (a[6] % 8) * ENTRY_COUNT>>

\* `index << 12` of an index below 512.
ShiftLeft12(index) == <<0, 0, 0, 0, index, 0>>

\* `self as *const _ as usize` of the table at the page vp.
TableAddress(vp) ==
    <<IF vp[1] >= 256 THEN 65535 ELSE 0, vp[1], vp[2], vp[3], vp[4], 0>>

\* Table::next_table_address, lines 34-43, on 64-bit addresses: entry is
\* self[index].
NextTableAddress64(entry, table_address, index) ==
    IF IsTableEntry(entry.flags)
    THEN [k \in 1 .. 6 |-> BitOr(ShiftLeft9(table_address)[k], ShiftLeft12(index)[k])]
    ELSE NoTable

\* The tables the calls are made on: the level-4 table and the level-3
\* tables it has.
TablesAt(c, m) ==
    {P4} \cup ({NextTable(c, m, P4, i) : i \in TableIndices} \ {NoTable})

\* The record of a call: the table and index, the entry, memory and pool
\* before it; what it returned, and whether it returned.
TableCall(op_, vp, index, r) ==
    [op |-> op_, vp |-> vp, index |-> index,
     entry |-> ReadEntry(ActiveP4, mem, vp, index), mem |-> mem, tiny |-> tiny,
     ok |-> r.ok, ret |-> r.child,
     address |-> NextTableAddress64(ReadEntry(ActiveP4, mem, vp, index),
                                    TableAddress(vp), index)]

TableInit ==
    /\ allocator = <<>>
    /\ AllocIdle
    /\ cr3 = StartAddress(MapperP4Frame)
    /\ \E e0 \in TableEntries, e1 \in TableEntries :
          mem = (MapperP4Frame :>
                    SetEntryOf(SetEntryOf(511 :> RecursiveEntry(MapperP4Frame), 0, e0), 1, e1))
                @@ (2 :> (1 :> [frame |-> 3, flags |-> {PRESENT, HUGE_PAGE}])
                         @@ (7 :> [frame |-> 9, flags |-> {PRESENT}]))
                @@ (3 :> EmptyTable)
    /\ pc = "ready"
    /\ why = ""
    /\ shadow = <<>>
    /\ lastop = [call |-> NoCall, prev |-> NoCall]
    /\ boot = <<>>
    /\ tiny = TablePool
    /\ new_table = None
    /\ backup = None
    /\ old_table = None
    /\ work = <<>>
    /\ before = NoSnapshot
    /\ handles = {}
    /\ PageIdle
    /\ TraceIdle
    /\ ApicIdle

\* next_table(index) or next_table_mut(index) is called on a table.
TableNextTable ==
    /\ pc = "ready"
    /\ \E vp \in TablesAt(ActiveP4, mem), index \in TableIndices :
          lastop' = Called(TableCall("next_table", vp, index,
                                     TableResult(ActiveP4, mem, TinyAlloc(tiny), vp, index)),
                           lastop)
    /\ UNCHANGED <<allocator, cr3, mem, pc, why, shadow, ivars, avars, svars, tvars>>

\* next_table_create(index, allocator) is called on a table.
TableNextTableCreate ==
    /\ pc = "ready"
    /\ \E vp \in TablesAt(ActiveP4, mem), index \in TableIndices :
          \E r \in {NextTableCreate(ActiveP4, mem, TinyAlloc(tiny), vp, index)} :
              /\ mem' = r.m
              /\ tiny' = r.al.frames
              /\ pc' = IF r.ok THEN "ready" ELSE "panic"
              /\ why' = r.why
              /\ lastop' = Called(TableCall("next_table_create", vp, index, r), lastop)
    /\ UNCHANGED <<allocator, cr3, shadow, boot, new_table, backup, old_table, work, before,
                   avars, svars, tvars>>

TableNext == TableNextTable \/ TableNextTableCreate

TableSpec == TableInit /\ [][TableNext]_vars

(***************************************************************************)
(* IoApic::io_apic_from_gsi (device/apic.rs).  ioapic holds                *)
(*   apics   IO_APICS: of each I/O APIC its gsib and, as version, what its *)
(*           register 1 holds (the maximum redirection entry in bits       *)
(*           16..23)                                                       *)
(*   gsi     the argument of the call                                      *)
(*   apic    the loop variable, from 0                                     *)
(*   ret     what the call returned                                        *)
(* and pc is "ready", "loop" (inside the for loop) or "returned".          *)
(***************************************************************************)
\* The GSIs the calls are made with.
MaxGsi == 48

\* An I/O APIC with 24 redirection entries (maximum entry 23, version
\* 0x11): its register 1 holds 0x00170011.
IoApicAt(gsib_) == [gsib |-> gsib_, version |-> 1507345]

\* IO_APICS: one I/O APIC, two side by side, two whose ranges overlap.
ApicLayouts ==
    {<<IoApicAt(0)>>, <<IoApicAt(0), IoApicAt(24)>>, <<IoApicAt(8), IoApicAt(16)>>}

\* IoApic::read(reg, io_apic_num), lines 134-146: the register number is
\* written over the local `base` and the value comes back through a
\* pointer to a temporary that holds base + 4; the outcomes are what the
\* temporary holds, reg + 4, and what the device's register holds.
ReadOutcomes(reg, device) == {reg + 4, device}

\* IoApic::get_max_redirect, line 164: (read & 0xff0000) >> 16
MaxRedirectOf(read) == (read \div 65536) % 256

\* Option<usize>
SomeApic(index) == [some |-> TRUE, index |-> index]

NoApic == [some |-> FALSE, index |-> 0]

ApicInit ==
    /\ allocator = <<>>
    /\ AllocIdle
    /\ cr3 = 0
    /\ mem = <<>>
    /\ pc = "ready"
    /\ why = ""
    /\ shadow = <<>>
    /\ lastop = <<>>
    /\ boot = <<>>
    /\ tiny = <<>>
    /\ new_table = None
    /\ backup = None
    /\ old_table = None
    /\ work = <<>>
    /\ before = NoSnapshot
    /\ handles = {}
    /\ PageIdle
    /\ TraceIdle
    /\ \E layout \in ApicLayouts :
          ioapic = [apics |-> layout, gsi |-> 0, apic |-> 0, ret |-> NoApic]

\* io_apic_from_gsi(gsi) is called: the loop starts at 0.
ApicCall ==
    /\ pc = "ready"
    /\ \E g \in 0 .. MaxGsi : ioapic' = [ioapic EXCEPT !.gsi = g, !.apic = 0, !.ret = NoApic]
    /\ pc' = "loop"
    /\ UNCHANGED <<allocator, avars, cr3, mem, why, mvars, ivars, handles, vaddr, page, trace>>

\* Lines 92-98: one turn of the loop.  get_max_redirect is called when the
\* first comparison holds.
ApicTest ==
    /\ pc = "loop"
    /\ ioapic.apic < Len(ioapic.apics)
    /\ LET io == ioapic.apics[ioapic.apic + 1]
       IN  \E read \in ReadOutcomes(1, io.version) :
               IF io.gsib < ioapic.gsi /\ io.gsib + MaxRedirectOf(read) > ioapic.gsi
               THEN /\ ioapic' = [ioapic EXCEPT !.ret = SomeApic(ioapic.apic)]
                    /\ pc' = "returned"
               ELSE /\ ioapic' = [ioapic EXCEPT !.apic = ioapic.apic + 1]
                    /\ pc' = "loop"
    /\ UNCHANGED <<allocator, avars, cr3, mem, why, mvars, ivars, handles, vaddr, page, trace>>

\* Line 101: the loop is over, None is returned.
ApicNone ==
    /\ pc = "loop"
    /\ ioapic.apic = Len(ioapic.apics)
    /\ ioapic' = [ioapic EXCEPT !.ret = NoApic]
    /\ pc' = "returned"
    /\ UNCHANGED <<allocator, avars, cr3, mem, why, mvars, ivars, handles, vaddr, page, trace>>

\* The caller goes on (set_redirect, lines 107-130) and may call again.
ApicAgain ==
    /\ pc = "returned"
    /\ pc' = "ready"
    /\ UNCHANGED <<allocator, avars, cr3, mem, why, mvars, ivars, handles, vaddr, page, trace,
                   ioapic>>

ApicNext == ApicCall \/ ApicTest \/ ApicNone \/ ApicAgain

ApicSpec == ApicInit /\ [][ApicNext]_vars

(***************************************************************************)
(* Properties of the allocator (checked under AllocSpec).                  *)
(***************************************************************************)
RunFrames(r) == IF r.some THEN r.start .. (r.start + r.count - 1) ELSE {}

KernelFrames == allocator.kernel_start .. allocator.kernel_end

MultibootFrames == allocator.multiboot_start .. allocator.multiboot_end

\* The recursion runs out of stack only when an activation left the
\* allocator exactly as it found it, so that every further activation
\* repeats it: StackLimit is above the depth of every call that returns.
OverflowOnlyWithoutProgress ==
    apc = "overflow" => AllocStep(allocator, count).a = allocator

\* C1: no two successful calls of allocate_frame return overlapping runs:
\* the run just returned is disjoint from every run returned earlier.
C1_NoOverlap == RunFrames(result) \cap RunFrames(earlier) = {}

\* C2: no run returned by allocate_frame(count), count >= 1, contains a
\* frame of the kernel range [kernel_start, kernel_end].
C2_KernelFree == RunFrames(result) \cap KernelFrames = {}

\* C2 witness: a run of two or more frames returned by a call that had to
\* jump past the kernel range.
C2_Witness == result.some /\ result.count >= 2 /\ "kernel" \in result.via

\* C3: no run returned by allocate_frame(count), count >= 1, contains a
\* frame of the boot-info range [multiboot_start, multiboot_end].
C3_MultibootFree == RunFrames(result) \cap MultibootFrames = {}

\* C4: every call of allocate_frame(count) returns (a frame or None) after
\* finitely many retries: the recursion never exhausts the stack.
C4_Terminates == apc # "overflow"

\* C5: every run returned lies inside one memory area of the memory map,
\* from the area's first frame to its last frame.
C5_InsideArea ==
    result.some =>
        \E i \in DOMAIN allocator.areas :
            /\ AreaStartFrame(allocator.areas[i]) <= result.start
            /\ result.start + result.count - 1 <= AreaLastFrame(allocator.areas[i])

\* C5 witness: a run of two or more frames returned from an area the call
\* switched to, in a memory map of several areas.
C5_Witness ==
    /\ result.some /\ result.count >= 2 /\ "area" \in result.via
    /\ Len(allocator.areas) >= 2

(***************************************************************************)
(* Properties of the Mapper (checked under MapperSpec).                    *)
(***************************************************************************)
\* C6: once map_to(page, frame, flags) has returned, and until unmap(page)
\* is called, translate(page.start_address() + offset) is
\* frame.start_address() + offset for every in-page offset, whatever other
\* pages are mapped or unmapped in between.
C6_RoundTrip ==
    \A address \in TestAddresses :
        shadow[address].state = "mapped" =>
            \A offset \in TestOffsets :
                Translate(ActiveP4, mem, PageStartAddress(PageContainingAddress(address)) + offset)
                    = StartAddress(shadow[address].frame) + offset

\* C6 witness: two pages of one level-1 table are mapped, to different
\* frames, after a third page was mapped and unmapped.
C6_Witness ==
    /\ pc = "ready"
    /\ shadow[4096].state = "mapped"
    /\ shadow[8192].state = "mapped"
    /\ shadow[4096].frame # shadow[8192].frame
    /\ shadow[1075843072].state = "unmapped"

\* C7: after unmap(page) of a mapped page, translate of every address of
\* the page is None; a later map of the page succeeds and translate then
\* gives the newly mapped frame; unmap of a page that is not mapped panics.
C7_UnmapThenMap ==
    /\ \A address \in TestAddresses :
          /\ shadow[address].state = "unmapped" =>
                \A offset \in TestOffsets : Translate(ActiveP4, mem, address + offset) = None
          /\ (shadow[address].state = "mapped" /\ shadow[address].unmapped # None) =>
                \A offset \in TestOffsets :
                    Translate(ActiveP4, mem, address + offset)
                        = StartAddress(shadow[address].frame) + offset
    /\ (lastop.op = "map_to" /\ lastop.prior = "unmapped") => pc = "ready"
    /\ (lastop.op = "unmap" /\ lastop.prior # "mapped") => pc = "panic"
    /\ (lastop.op = "unmap" /\ lastop.prior = "mapped") => pc = "ready"

\* C7 witness: a page that was mapped, unmapped and mapped again to another
\* frame.
C7_Witness ==
    \E address \in TestAddresses :
        /\ shadow[address].state = "mapped"
        /\ shadow[address].unmapped # None
        /\ shadow[address].unmapped # shadow[address].frame

(***************************************************************************)
(* Properties of paging_init (checked under InitSpec).                     *)
(***************************************************************************)
\* The frames paging_init is to map to themselves.
IdentityFrames(b) ==
    AllocatedFrames(b.sections) \cup {VgaBufferFrame} \cup BootInfoFrames(b)

IdentityMapped(f) ==
    \A offset \in TestOffsets :
        Translate(ActiveP4, mem, StartAddress(f) + offset) = StartAddress(f) + offset

C9_AllIdentityMapped ==
    pc = "done" => \A f \in IdentityFrames(boot) : IdentityMapped(f)

\* C9 amended: after paging_init completes, every frame of the allocated
\* sections, the VGA buffer's frame and every frame of the boot information,
\* other than the frame of the old level-4 table, is identity mapped in the
\* active address space.
C9_IdentityMappedButGuard ==
    pc = "done" => \A f \in IdentityFrames(boot) \ {boot.p4} : IdentityMapped(f)

\* C9 happens: paging_init completed on two allocated sections whose ends
\* lie inside a page, with a section that is not loaded between them.
C9_Witness ==
    /\ pc = "done"
    /\ Len(boot.sections) = 3
    /\ ContainingAddress(cr3) = new_table
    /\ Cardinality(IdentityFrames(boot) \ {boot.p4}) >= 7

\* C10: after paging_init completes, the page at the address of the old
\* level-4 table's frame has no translation in the active address space.
C10_GuardPageUnmapped ==
    pc = "done" =>
        Translate(ActiveP4, mem, StartAddress(boot.p4)) = None

\* C10 happens: paging_init completed, and the old level-4 table's frame is
\* a frame of an allocated section, which the closure identity mapped.
C10_Witness ==
    /\ pc = "done"
    /\ old_table = boot.p4
    /\ boot.p4 \in AllocatedFrames(boot.sections)
    /\ cr3 # before.cr3

\* The steps of `with` in the order the design gives them, the closure
\* making k identity maps.
WithOrder(k) ==
    <<"map_backup", "point_inactive", "flush_all">>
    \o [i \in 1 .. k |-> "identity_map"]
    \o <<"restore_backup", "flush_all", "unmap_temp">>

\* What `with` has done so far: the trace from its first step on, up to
\* its last.
WithTrace ==
    IF \A i \in DOMAIN trace : trace[i] # "map_backup" THEN <<>>
    ELSE LET first == CHOOSE i \in DOMAIN trace : trace[i] = "map_backup"
             ends  == {i \in DOMAIN trace : trace[i] = "unmap_temp"}
             last  == IF ends = {} THEN Len(trace) ELSE CHOOSE i \in ends : TRUE
         IN  SubSeq(trace, first, last)

IsPrefix(a, b) == Len(a) <= Len(b) /\ SubSeq(b, 1, Len(a)) = a

\* Steps that reach a table through the recursive address.
RecursiveAccess ==
    {"new_map", "new_unmap", "map_backup", "point_inactive", "identity_map",
     "unmap_temp", "unmap_guard"}

\* C19: `with` maps the level-4 frame read from the base register at the
\* temporary page, points entry 511 of the active table at the inactive
\* frame, flushes, runs the closure with entry 511 pointing at the inactive
\* frame throughout, sets entry 511 back through the temporary page,
\* flushes again, and only then unmaps the temporary page; and no step
\* reaches a table through the recursive address between a write of entry
\* 511 and the flush after it.
C19_WithOrder ==
    /\ \E k \in 0 .. Len(ClosureWork(boot)) : IsPrefix(WithTrace, WithOrder(k))
    /\ \A i \in DOMAIN trace :
          trace[i] \in {"point_inactive", "restore_backup"} =>
              \/ i = Len(trace) /\ pc \in {"with_flush", "with_flushed"}
              \/ i < Len(trace) /\ trace[i + 1] = "flush_all"
    /\ \A i \in DOMAIN trace, j \in DOMAIN trace :
          (/\ trace[i] \in {"point_inactive", "restore_backup"}
           /\ i < j
           /\ trace[j] \in RecursiveAccess) =>
              \E k \in (i + 1) .. (j - 1) : trace[k] = "flush_all"
    /\ pc \in {"f_tag", "f_map"} =>
          /\ EntryOf(mem[ActiveP4], 511) = RecursiveEntry(new_table)
          /\ Walk(ActiveP4, mem, TempPage) = backup
          /\ backup = ActiveP4
    /\ pc \in {"with_flushed", "with_unmap"} =>
          /\ work = <<>>
          /\ EntryOf(mem[ActiveP4], 511) = RecursiveEntry(backup)
          /\ Walk(ActiveP4, mem, TempPage) = backup
    /\ pc = "switch" => Walk(ActiveP4, mem, TempPage) = None

\* C19 happens: `with` has returned after a closure that made seven
\* identity maps or more.
C19_Witness ==
    /\ pc = "switch"
    /\ Len(WithTrace) >= 13
    /\ WithTrace = WithOrder(Len(ClosureWork(boot)))

\* Entry 511 of the table in the frame is present and points at the frame.
SelfPointing(frame) ==
    /\ frame \in DOMAIN mem
    /\ PRESENT \in EntryOf(mem[frame], 511).flags
    /\ EntryOf(mem[frame], 511).frame = frame

\* The places of an event in the trace.
Places(event) == {i \in DOMAIN trace : trace[i] = event}

\* C20: paging_init writes the base register once, after every identity
\* map of the closure has been made in the new table and `with` has
\* returned (the old table's entry 511 set back, the temporary page
\* unmapped); the guard page is unmapped after that write, in the table
\* just installed, which is the one the returned ActivePageTable works on.
C20_SwitchOnceAfterWith ==
    /\ Cardinality(Places("write_cr3")) <= 1
    /\ Places("write_cr3") = {} => cr3 = StartAddress(boot.p4)
    /\ \A w \in Places("write_cr3") :
          /\ cr3 = StartAddress(new_table)
          /\ new_table # boot.p4
          /\ SubSeq(trace, w - Len(WithTrace), w - 1) = WithOrder(Len(ClosureWork(boot)))
          /\ \A g \in Places("unmap_guard") : g = w + 1 /\ g = Len(trace)
    /\ Places("write_cr3") = {} => Places("unmap_guard") = {}
    /\ pc = "guard" =>
          /\ Places("write_cr3") = {Len(trace)}
          /\ \A f \in IdentityFrames(boot) : IdentityMapped(f)
          /\ SelfPointing(boot.p4)
          /\ TranslatePage(boot.p4, mem, TempPage) = None
    /\ pc = "done" =>
          /\ Cardinality(Places("write_cr3")) = 1
          /\ Places("unmap_guard") = {Len(trace)}
          /\ ActiveP4 = new_table
          /\ SelfPointing(new_table)
          /\ TranslatePage(new_table, mem, PageContainingAddress(StartAddress(boot.p4))) = None
          /\ TranslatePage(boot.p4, mem, PageContainingAddress(StartAddress(boot.p4))) = boot.p4

\* C20 happens: paging_init completed on three sections, two of them
\* loaded, and a boot information high up.
C20_Witness ==
    /\ pc = "done"
    /\ Len(boot.sections) = 3
    /\ boot.extent[1] > StartAddress(ENTRY_COUNT)
    /\ Places("write_cr3") = {Len(trace) - 1}
    /\ cr3 = StartAddress(new_table)

\* Every loaded section of the boot information starts on a page boundary.
LoadedAligned(b) ==
    \A i \in DOMAIN b.sections :
        b.sections[i].allocated => b.sections[i].addr % PAGE_SIZE = 0

\* The messages of the panics of C21: the two expects on a missing tag and
\* on the level-4 frame, the assertion on alignment, and the expect of
\* next_table_create on a frame for an intermediate table.
FatalCauses ==
    {"Memory map tag required", "sections need to be page aligned",
     "no more frames", "no frames available"}

\* C21: when the kernel-section tag is missing, a loaded section is not
\* page aligned, or the allocator has no frame for the level-4 table or an
\* intermediate table, paging_init panics and does not return, and the
\* base register still holds the boot table: switch has not been called.
C21_FatalBeforeSwitch ==
    /\ (pc = "panic" /\ why \in FatalCauses) =>
          /\ cr3 = StartAddress(boot.p4)
          /\ Places("write_cr3") = {}
    /\ pc \in {"with_flushed", "with_unmap", "switch", "guard", "done"} =>
          /\ boot.has_elf_tag
          /\ LoadedAligned(boot)
          /\ allocator.current_area # None
    /\ (pc = "f_map" /\ work = <<>>) =>
          /\ boot.has_elf_tag
          /\ LoadedAligned(boot)
          /\ allocator.current_area # None
    /\ pc \notin {"start", "alloc_p4", "panic"} => allocator.current_area # None

\* C21 happens: the alignment assertion has failed on a later section,
\* after identity maps were made in the new table.
C21_Witness ==
    /\ pc = "panic"
    /\ why = "sections need to be page aligned"
    /\ boot.has_elf_tag
    /\ Cardinality(Places("identity_map")) >= 5

\* The pages at which the recursive region shows the level-3, level-2 and
\* level-1 table the temporary page is mapped through.
TempTablePages == {<<511, 511, 511, 25>>, <<511, 511, 25, 191>>, <<511, 25, 191, 349>>}

\* What InactivePageTable::new leaves in the frame, and the temporary page.
NewLeavesTable ==
    /\ new_table \in DOMAIN mem
    /\ \A i \in 0 .. 510 : EntryOf(mem[new_table], i) = UnusedEntry
    /\ EntryOf(mem[new_table], 511) = [frame |-> new_table, flags |-> {PRESENT, WRITABLE}]
    /\ \A p \in ProbePages : p[1] # 511 => TranslatePage(new_table, mem, p) = None
    /\ TranslatePage(new_table, mem, P4) = new_table
    /\ TranslatePage(ActiveP4, mem, TempPage) = None

\* C22 as stated: when InactivePageTable::new has returned, the frame is a
\* level-4 table with entries 0..510 unused and entry 511 pointing at the
\* frame with PRESENT | WRITABLE, the temporary page is unmapped, and every
\* other page translates in the active space as it did before the call.
C22_NewLeavesOthers ==
    pc = "with_map" =>
        /\ NewLeavesTable
        /\ \A p \in ProbePages \ {TempPage} :
              TranslatePage(ActiveP4, mem, p) = TranslatePage(boot.p4, BootTables(boot), p)

\* C22 amended: as stated, but for the pages of the recursive region that
\* show the tables made for the temporary page's mapping: unmap keeps
\* those tables, so these pages are mapped after the call.
C22_NewLeavesOthersButTables ==
    pc = "with_map" =>
        /\ NewLeavesTable
        /\ \A p \in ProbePages \ ({TempPage} \cup TempTablePages) :
              TranslatePage(ActiveP4, mem, p) = TranslatePage(boot.p4, BootTables(boot), p)
        /\ \A p \in TempTablePages :
              /\ TranslatePage(boot.p4, BootTables(boot), p) = None
              /\ TranslatePage(ActiveP4, mem, p) \notin {None, new_table}

\* C22 happens: new has returned on a frame that held a stale table.
C22_Witness ==
    /\ pc = "with_map"
    /\ Places("new_unmap") # {}
    /\ NewLeavesTable
    /\ TranslatePage(ActiveP4, mem, PageContainingAddress(StartAddress(18))) = 18
    /\ TranslatePage(ActiveP4, mem, <<511, 511, 511, 25>>) # None

\* The steps on the temporary page in the trace, in order.
IsTempStep(event) == event \in {"new_map", "new_unmap", "map_backup", "unmap_temp"}

TempSteps == SelectSeq(trace, IsTempStep)

\* The frame the processor finds behind the temporary page in the address
\* space of the base register, or None.
TempMapped == Walk(ActiveP4, mem, TempPage)

\* C23: in paging_init the temporary page is mapped by map_table_frame
\* only while it is unmapped, each map_table_frame is followed by one unmap
\* before the next, and the temporary page is unmapped when new, `with`
\* and paging_init return.
C23_OneBorrowAtATime ==
    /\ IsPrefix(TempSteps, <<"new_map", "new_unmap", "map_backup", "unmap_temp">>)
    /\ pc \in {"start", "alloc_p4", "new_map"} => TempSteps = <<>> /\ TempMapped = None
    /\ pc \in {"new_init", "new_unmap"} => TempSteps = <<"new_map">> /\ TempMapped = new_table
    /\ pc = "with_map" => TempSteps = <<"new_map", "new_unmap">> /\ TempMapped = None
    /\ pc \in {"with_point", "with_flush", "f_tag", "f_map", "with_flushed", "with_unmap"} =>
          /\ TempSteps = <<"new_map", "new_unmap", "map_backup">>
          /\ TempMapped = backup
    /\ pc \in {"switch", "guard", "done"} =>
          /\ TempSteps = <<"new_map", "new_unmap", "map_backup", "unmap_temp">>
          /\ TempMapped = None
          /\ Walk(boot.p4, mem, TempPage) = None
    /\ pc = "panic" => why # "unmap of a page that is not mapped"

\* C23 happens: paging_init has returned after both borrows of the
\* temporary page, the second one held while the closure made its maps.
C23_Witness ==
    /\ pc = "done"
    /\ TempSteps = <<"new_map", "new_unmap", "map_backup", "unmap_temp">>
    /\ Places("identity_map") # {}
    /\ \A i \in Places("identity_map") :
          /\ \E j \in Places("map_backup") : j < i
          /\ \E j \in Places("unmap_temp") : i < j

(***************************************************************************)
(* Properties of the address spaces (checked under SpaceSpec).             *)
(***************************************************************************)
\* C11: after switch(new_table) the base register holds the address of
\* new_table's frame and the handle returned names the frame the register
\* held before the call; and after switch(switch(t)) the register holds
\* what it held before the first switch and the handle returned names t's
\* frame.
C11_SwitchSwaps ==
    lastop.call.op = "switch" =>
        /\ cr3 = StartAddress(lastop.call.arg)
        /\ lastop.call.ret = ContainingAddress(lastop.call.before)
        /\ StartAddress(lastop.call.ret) = lastop.call.before
        /\ (lastop.prev.op = "switch" /\ lastop.call.arg = lastop.prev.ret) =>
               /\ cr3 = lastop.prev.before
               /\ lastop.call.ret = lastop.prev.arg

\* C11 happens: a switch was followed by a switch to the handle it
\* returned, between two different tables.
C11_Witness ==
    /\ lastop.call.op = "switch"
    /\ lastop.prev.op = "switch"
    /\ lastop.call.arg = lastop.prev.ret
    /\ lastop.prev.arg # lastop.prev.ret
    /\ cr3 = lastop.prev.before

\* C12: after any sequence of InactivePageTable::new, with and switch,
\* every InactivePageTable handle that exists names a level-4 frame whose
\* entry 511 is PRESENT and points at that frame, and so does the table in
\* the base register outside of a `with` call.
C12_RecursiveSlots ==
    /\ \A h \in handles : SelfPointing(h)
    /\ pc = "ready" => SelfPointing(ActiveP4)

\* C12 happens: `with` has returned on a table made by new, after a switch
\* whose returned handle (the boot table's) still exists, the closure's
\* mapping being in the table that is not active.
C12_Witness ==
    /\ pc = "ready"
    /\ lastop.call.op = "with"
    /\ lastop.prev.op = "switch"
    /\ MapperP4Frame \in handles
    /\ Cardinality(handles) >= 2
    /\ ActiveP4 # MapperP4Frame
    /\ \E h \in handles :
          TranslatePage(h, mem, PageContainingAddress(4096)) = 40
    /\ TranslatePage(ActiveP4, mem, PageContainingAddress(4096)) = None

(***************************************************************************)
(* More properties of the allocator (checked under AllocSpec).             *)
(***************************************************************************)
\* The frames of the memory areas of an allocator.
AreaFrames(a) ==
    UNION {AreaStartFrame(a.areas[i]) .. AreaLastFrame(a.areas[i]) : i \in DOMAIN a.areas}

\* The frames at or above the candidate that lie in a memory area and
\* outside the kernel and boot-info ranges.
FreeFrames(a) ==
    {f \in AreaFrames(a) :
        /\ f >= a.next_free_frame
        /\ ~(a.kernel_start <= f /\ f <= a.kernel_end)
        /\ ~(a.multiboot_start <= f /\ f <= a.multiboot_end)}

Lowest(S) == CHOOSE f \in S : \A g \in S : f <= g

\* A call of allocate_frame(c) has returned.
Returned(c) == apc = "idle" /\ entered # <<>> /\ count = c

\* C13: allocate_frame(1) returns None exactly when no memory area holds a
\* frame at or above the candidate outside the kernel and boot-info
\* ranges, it returns the lowest such frame when there is one, and once a
\* call for one frame or more has returned None every later call returns
\* None.
C13_ExhaustionExact ==
    /\ Returned(1) =>
          /\ result.some <=> FreeFrames(entered) # {}
          /\ result.some => result.start = Lowest(FreeFrames(entered))
    /\ (exhausted /\ apc = "idle") => ~result.some

\* C13 happens: allocate_frame(1) returned the lowest free frame after
\* passing the kernel range, the boot-info range and the end of an area.
C13_Witness ==
    /\ Returned(1)
    /\ result.some
    /\ result.via = {"area", "kernel", "multiboot"}
    /\ result.start = Lowest(FreeFrames(entered))

\* C13 happens as well: allocate_frame(1) returned None after frames had
\* been handed out, and a later call for two frames returned None too.
C13_WitnessExhausted ==
    /\ Returned(2)
    /\ exhausted
    /\ earlier.some
    /\ FreeFrames(entered) = {}
    /\ ~result.some

\* The run of c frames from f lies inside one memory area and meets
\* neither the kernel range nor the boot-info range.
FreeRun(a, f, c) ==
    /\ \E i \in DOMAIN a.areas :
          AreaStartFrame(a.areas[i]) <= f /\ f + c - 1 <= AreaLastFrame(a.areas[i])
    /\ \A g \in f .. (f + c - 1) :
          /\ ~(a.kernel_start <= g /\ g <= a.kernel_end)
          /\ ~(a.multiboot_start <= g /\ g <= a.multiboot_end)

\* The start frames after kernel_end of the free runs of c frames.
FreeRunsPastKernel(a, c) ==
    {f \in AreaFrames(a) : f > a.kernel_end /\ FreeRun(a, f, c)}

\* C14: a call of allocate_frame(count) whose candidate run overlapped the
\* kernel range returns the first run starting after kernel_end that is
\* free.
C14_FirstFreePastKernel ==
    (apc = "idle" /\ result.some /\ "kernel" \in result.via) =>
        /\ result.start \in FreeRunsPastKernel(entered, result.count)
        /\ result.start = Lowest(FreeRunsPastKernel(entered, result.count))

\* C17: when allocate_frame(count) has returned Some(frame), the candidate
\* is that frame plus count: the whole returned run is behind it.
C17_CandidatePastRun ==
    (apc = "idle" /\ result.some) =>
        allocator.next_free_frame = result.start + result.count

\* C18: no step of allocate_frame lowers the candidate, and the start
\* frame of a successful call is above the start frame of every successful
\* call before it.
C18_CandidateMonotonic ==
    [][/\ allocator'.next_free_frame >= allocator.next_free_frame
       /\ (result'.some /\ earlier'.some) => earlier'.start < result'.start]_vars

\* C18 happens: a second successful call has returned, having passed the
\* kernel range, the boot-info range and the end of an area.
C18_Witness ==
    /\ apc = "idle"
    /\ result.some /\ earlier.some
    /\ result.via = {"area", "kernel", "multiboot"}
    /\ earlier.start < result.start
    /\ allocator.next_free_frame > entered.next_free_frame + 2

(***************************************************************************)
(* Properties of Page (checked under PageSpec).                            *)
(***************************************************************************)
\* a + PAGE_SIZE as a number of one digit more (the digit in front is the
\* carry out of bit 63): the page number's digits go up by one from the
\* right.
RECURSIVE Successor(_, _)
Successor(number, k) ==
    IF k = 0 THEN <<1>> \o number
    ELSE IF number[k] + 1 < Radix[k] THEN <<0>> \o [number EXCEPT ![k] = @ + 1]
    ELSE Successor([number EXCEPT ![k] = 0], k - 1)

PlusPageSize(address) == Successor(SubSeq(address, 1, 5), 5) \o <<address[6]>>

\* C15: for every address Page::containing_address accepts, the page's
\* start_address() is at most the address, the address is below
\* start_address() + 4096, and start_address() is a multiple of 4096.
C15_PageHoldsAddress ==
    (page # NoPage /\ page.ok) =>
        /\ ~AddressLess(vaddr, PageStart(page.number))
        /\ DigitsLess(<<0>> \o vaddr, PlusPageSize(PageStart(page.number)), 1)
        /\ PageStart(page.number)[6] % PAGE_SIZE = 0
        /\ Len(PageStart(page.number)) = Len(vaddr)

\* C15 happens: the page of the last address of the lower half, an address
\* that is not the start of its page.
C15_Witness ==
    /\ page # NoPage /\ page.ok
    /\ vaddr = <<0, 255, 511, 511, 511, PAGE_SIZE - 1>>
    /\ PageStart(page.number) = <<0, 255, 511, 511, 511, 0>>

\* An address whose bits 63..47 are all equal: an address of the lower or
\* of the higher half.
Canonical(address) ==
    \/ address[1] = 0 /\ address[2] < 256
    \/ address[1] = 65535 /\ address[2] >= 256

\* C16: Page::containing_address fails for every address from
\* 0x0000_8000_0000_0000 up to but not including 0xffff_8000_0000_0000 and
\* succeeds for every address of either half.
C16_CanonicalOnly ==
    page # NoPage => (page.ok <=> Canonical(vaddr))

\* C16 happens: the call failed for 0x0000_8000_0000_0000, the first address
\* that is in neither half.
C16_Witness ==
    /\ page # NoPage
    /\ vaddr = LowerHalfEnd
    /\ ~page.ok
    /\ pc = "panic"

(***************************************************************************)
(* Properties of Table (checked under TableSpec).                          *)
(***************************************************************************)
\* The page of a 64-bit address.
PageOf(address) == <<address[2], address[3], address[4], address[5]>>

\* C24: next_table and next_table_mut return a child exactly when the
\* entry has PRESENT set and HUGE_PAGE clear; the child's address is
\* (parent_address << 9) | (index << 12) in 64 bits, which for the level-4
\* table at 0xffff_ffff_ffff_f000 is 0xffff_ffff_ffe0_0000 + index * 4096
\* and for a level-3 table one more place up; the entry's frame does not
\* enter into it.
C24_NextTable ==
    lastop.call.op = "next_table" =>
        LET call == lastop.call
            some == PRESENT \in call.entry.flags /\ HUGE_PAGE \notin call.entry.flags
        IN  /\ (call.ret # NoTable) = some
            /\ (call.address # NoTable) = some
            /\ some =>
                  /\ PageOf(call.address) = call.ret
                  /\ call.vp = P4 =>
                        call.address = <<65535, 511, 511, 511, call.index, 0>>
                  /\ call.vp # P4 =>
                        call.address = <<65535, 511, 511, call.vp[4], call.index, 0>>
                  /\ \A f \in 0 .. 9 :
                        NextTableAddress64([call.entry EXCEPT !.frame = f],
                                           TableAddress(call.vp), call.index)
                            = call.address
            /\ call.mem = mem
            /\ call.tiny = tiny

\* C24 happens: next_table gave the child of the level-4 table at index 1,
\* after it gave nothing for a present huge page at index 0.
C24_Witness ==
    /\ lastop.call.op = "next_table"
    /\ lastop.call.vp = P4
    /\ lastop.call.index = 1
    /\ lastop.call.address = <<65535, 511, 511, 511, 1, 0>>
    /\ lastop.prev.op = "next_table"
    /\ lastop.prev.entry.flags = {PRESENT, HUGE_PAGE}
    /\ lastop.prev.ret = NoTable

\* The frames a call took from the pool.
Taken(pool_before, pool_after) ==
    {pool_before[i] : i \in {j \in DOMAIN pool_before : pool_before[j] # pool_after[j]}}

\* Memory differs from m only in entry index of the table in frame parent
\* and in the table in frame f.
OnlyChanged(m, parent, index, f) ==
    /\ DOMAIN mem = DOMAIN m \cup {f}
    /\ \A g \in DOMAIN m \ {parent, f} : mem[g] = m[g]
    /\ \A j \in (0 .. (ENTRY_COUNT - 1)) \ {index} :
          EntryOf(mem[parent], j) = EntryOf(m[parent], j)

\* C25: next_table_create, on an entry without HUGE_PAGE, allocates one
\* frame when the child is absent, sets the entry to it with PRESENT |
\* WRITABLE and leaves the child with every entry unused; when the child is
\* present it allocates nothing and changes no entry; so a second call for
\* the same index allocates nothing and returns the same child.
C25_CreateOnce ==
    (lastop.call.op = "next_table_create" /\ HUGE_PAGE \notin lastop.call.entry.flags) =>
        LET call   == lastop.call
            parent == Walk(ActiveP4, call.mem, call.vp)
            taken  == Taken(call.tiny, tiny)
        IN  /\ PRESENT \in call.entry.flags =>
                  /\ call.ok
                  /\ taken = {}
                  /\ mem = call.mem
                  /\ call.ret = ChildAddress(call.vp, call.index)
            /\ (PRESENT \notin call.entry.flags /\ call.ok) =>
                  /\ Cardinality(taken) = 1
                  /\ \A f \in taken :
                        /\ f # None
                        /\ EntryOf(mem[parent], call.index) =
                               [frame |-> f, flags |-> {PRESENT, WRITABLE}]
                        /\ f \in DOMAIN mem
                        /\ \A j \in 0 .. (ENTRY_COUNT - 1) : EntryOf(mem[f], j) = UnusedEntry
                        /\ OnlyChanged(call.mem, parent, call.index, f)
                  /\ call.ret = ChildAddress(call.vp, call.index)
            /\ (PRESENT \notin call.entry.flags /\ ~call.ok) =>
                  /\ \A i \in DOMAIN call.tiny : call.tiny[i] = None
                  /\ why = "no frames available"
                  /\ mem = call.mem
                  /\ tiny = call.tiny
            /\ (/\ lastop.prev.op = "next_table_create"
                /\ lastop.prev.vp = call.vp
                /\ lastop.prev.index = call.index) =>
                  /\ call.ok
                  /\ taken = {}
                  /\ mem = call.mem
                  /\ call.ret = lastop.prev.ret
                  /\ Cardinality(Taken(lastop.prev.tiny, tiny)) <= 1

\* C25 happens: next_table_create was called twice for an index of a
\* level-3 table whose child was absent; the first call took a frame.
C25_Witness ==
    /\ lastop.call.op = "next_table_create"
    /\ lastop.prev.op = "next_table_create"
    /\ lastop.prev.vp = lastop.call.vp
    /\ lastop.call.vp # P4
    /\ lastop.prev.index = lastop.call.index
    /\ PRESENT \notin lastop.prev.entry.flags
    /\ Cardinality(Taken(lastop.prev.tiny, tiny)) = 1
    /\ lastop.call.ret = lastop.prev.ret
    /\ pc = "ready"

\* C26: next_table_create panics whenever the entry carries HUGE_PAGE,
\* with PRESENT or without, and then it has allocated no frame and left
\* the entry and everything else as it was.
C26_HugePanics ==
    /\ (lastop.call.op = "next_table_create" /\ HUGE_PAGE \in lastop.call.entry.flags) =>
          /\ ~lastop.call.ok
          /\ pc = "panic"
          /\ why = "mapping code does not support huge pages"
          /\ tiny = lastop.call.tiny
          /\ mem = lastop.call.mem
    /\ (pc = "panic" /\ why = "mapping code does not support huge pages") =>
          HUGE_PAGE \in lastop.call.entry.flags

\* C26 happens: the call met HUGE_PAGE without PRESENT in a level-4 entry
\* while the pool still held frames.
C26_Witness ==
    /\ pc = "panic"
    /\ lastop.call.op = "next_table_create"
    /\ lastop.call.entry.flags = {HUGE_PAGE}
    /\ lastop.call.vp = P4
    /\ \E i \in DOMAIN tiny : tiny[i] # None

(***************************************************************************)
(* Properties of IoApic (checked under ApicSpec).                          *)
(***************************************************************************)
\* The I/O APICs, by index from 0, whose range gsib .. gsib + maximum
\* redirection entry holds the GSI.
Handling(gsi_) ==
    {k \in 0 .. (Len(ioapic.apics) - 1) :
        /\ ioapic.apics[k + 1].gsib <= gsi_
        /\ gsi_ <= ioapic.apics[k + 1].gsib + MaxRedirectOf(ioapic.apics[k + 1].version)}

\* C27: io_apic_from_gsi(gsi) returns Some of the first I/O APIC whose
\* range gsib .. gsib + maximum redirection entry, both ends included,
\* holds gsi, and None only when no range holds it.
C27_HandlingApic ==
    pc = "returned" =>
        IF Handling(ioapic.gsi) = {} THEN ioapic.ret = NoApic
        ELSE /\ ioapic.ret.some
             /\ ioapic.ret.index \in Handling(ioapic.gsi)
             /\ \A k \in Handling(ioapic.gsi) : ioapic.ret.index <= k

====
